---- MODULE Spec2Model ----
(***************************************************************************)
(* Canvas state synchronization engine of the Nody backend:                *)
(*   - plan sanitization (utils.py, code_generation.py)                     *)
(*   - the durable metadata document, the in-memory index files_db and the  *)
(*     workspace directory (database.py, main.py)                           *)
(*   - the durable edges document (main.py)                                 *)
(* Strings are TLA+ strings handled character by character; a Python dict  *)
(* is a record whose DOMAIN is the set of keys that are present.            *)
(***************************************************************************)
EXTENDS Integers, Sequences, FiniteSets, TLC

VARIABLES
    plan_data,      \* sanitize_plan: the raw plan handed in by the planner
    project_spec,   \* sanitize_plan: the project specification
    plan_result,    \* sanitize_plan: the returned plan (files, kept raw indexes)
    plan_again,     \* sanitize_plan: what a second call on the same plan returns
    workspace,      \* prepare_project_workspace: metadata payload and files written
    metadata,       \* METADATA_FILE: node id -> record (the durable document)
    files_db,       \* FileDatabase.files_db: node id -> FileNode (the index)
    disk,           \* regular files under CANVAS_DIR: path -> content
    dirs,           \* directories under CANVAS_DIR (set of paths)
    edges,          \* EDGES_FILE: sequence of edge records
    metadata_file,  \* METADATA_FILE as a file: what a read finds, whether a write succeeds
    loaded,         \* load_metadata: the outcome of the last direct call
    in_flight,      \* load-modify-save cycles under way: what each has loaded
    runs,           \* run_file_stream: the nodes whose generator is under way
    output,         \* OUTPUT_FILE: the list under "messages"
    written,        \* the messages handed to write_output since the last clear
    writers,        \* write_output calls under way: what each has read
    launcher,       \* RUN_APP_PROCESS, the run_app.sh processes and their threads
    last,           \* report of the last handler that ran (name, arguments, outcome)
    steps           \* number of requests handled so far

vars == <<plan_data, project_spec, plan_result, plan_again, workspace,
          metadata, files_db, disk, dirs, edges, metadata_file, loaded, in_flight,
          runs, output, written, writers, launcher, last, steps>>

planVars == <<plan_data, project_spec, plan_result, plan_again, workspace>>
storeVars == <<metadata, files_db, disk, dirs, edges>>
runVars == <<runs, output, written, writers, launcher>>
fileVars == <<metadata_file, loaded, in_flight, runVars>>

(***************************************************************************)
(* A local variable of the code: Body is evaluated with the value bound to *)
(* its parameter, as in  name = value; body.                               *)
(***************************************************************************)
Let(value, Body(_)) == Body(value)

(***************************************************************************)
(* Python strings                                                          *)
(***************************************************************************)
Char(s, i) == SubSeq(s, i, i)

Chars(s) == {Char(s, i) : i \in 1..Len(s)}

StartsWith(s, p) == Len(s) >= Len(p) /\ SubSeq(s, 1, Len(p)) = p

EndsWith(s, p) == Len(s) >= Len(p) /\ SubSeq(s, Len(s) - Len(p) + 1, Len(s)) = p

Contains(s, p) == \E i \in 1..(Len(s) - Len(p) + 1) : SubSeq(s, i, i + Len(p) - 1) = p

\* index of the first / last occurrence of the character c in s, 0 when absent
IndexOf(s, c) ==
    IF c \in Chars(s)
    THEN CHOOSE i \in 1..Len(s) : Char(s, i) = c /\ \A j \in 1..(i - 1) : Char(s, j) # c
    ELSE 0

LastIndexOf(s, c) ==
    IF c \in Chars(s)
    THEN CHOOSE i \in 1..Len(s) : Char(s, i) = c /\ \A j \in (i + 1)..Len(s) : Char(s, j) # c
    ELSE 0

UpperAlpha == "ABCDEFGHIJKLMNOPQRSTUVWXYZ"
LowerAlpha == "abcdefghijklmnopqrstuvwxyz"
Digits == "0123456789"

UpperSet == Chars(UpperAlpha)
AlnumSet == Chars(LowerAlpha) \cup Chars(UpperAlpha) \cup Chars(Digits)

LowerChar(c) ==
    IF c \in UpperSet THEN Char(LowerAlpha, IndexOf(UpperAlpha, c)) ELSE c

RECURSIVE MapChars(_, _)
MapChars(s, i) ==
    IF i > Len(s) THEN "" ELSE LowerChar(Char(s, i)) \o MapChars(s, i + 1)

\* str.lower()
Lower(s) == MapChars(s, 1)

\* str.isalnum() of one character
IsAlnum(c) == c \in AlnumSet

\* str.replace(a, b) for a single character a
RECURSIVE Replace(_, _, _)
Replace(s, a, b) ==
    IF s = "" THEN ""
    ELSE (IF Head(s) = a THEN b ELSE Head(s)) \o Replace(Tail(s), a, b)

\* str.split(c): the parts between occurrences of c, empty parts included
RECURSIVE Split(_, _)
Split(s, c) ==
    LET i == IndexOf(s, c)
    IN  IF i = 0 THEN <<s>>
        ELSE <<SubSeq(s, 1, i - 1)>> \o Split(SubSeq(s, i + 1, Len(s)), c)

\* sep.join(parts)
RECURSIVE Join(_, _)
Join(parts, sep) ==
    IF parts = <<>> THEN ""
    ELSE IF Len(parts) = 1 THEN parts[1]
    ELSE parts[1] \o sep \o Join(Tail(parts), sep)

NonEmpty(parts) == SelectSeq(parts, LAMBDA p : p # "")

\* str.strip(): the inputs carry no whitespace other than the blank
RECURSIVE LStrip(_)
LStrip(s) == IF s # "" /\ Head(s) = " " THEN LStrip(Tail(s)) ELSE s

RECURSIVE RStrip(_)
RStrip(s) ==
    IF s # "" /\ Char(s, Len(s)) = " " THEN RStrip(SubSeq(s, 1, Len(s) - 1)) ELSE s

Strip(s) == RStrip(LStrip(s))

(***************************************************************************)
(* os.path (posixpath)                                                     *)
(***************************************************************************)
\* os.path.basename
Basename(p) == SubSeq(p, LastIndexOf(p, "/") + 1, Len(p))

\* os.path.splitext: the extension starts at the last dot of the basename,
\* unless only dots precede it
SplitExt(p) ==
    LET sepIndex == LastIndexOf(p, "/")
        dotIndex == LastIndexOf(p, ".")
    IN  IF dotIndex > sepIndex
           /\ \E k \in (sepIndex + 1)..(dotIndex - 1) : Char(p, k) # "."
        THEN <<SubSeq(p, 1, dotIndex - 1), SubSeq(p, dotIndex, Len(p))>>
        ELSE <<p, "">>

\* the component loop of posixpath.normpath
RECURSIVE NormComps(_, _, _)
NormComps(comps, new_comps, initial_slashes) ==
    IF comps = <<>> THEN new_comps
    ELSE LET comp == Head(comps)
         IN  IF comp \in {"", "."}
             THEN NormComps(Tail(comps), new_comps, initial_slashes)
             ELSE IF comp # ".."
                     \/ (initial_slashes = 0 /\ new_comps = <<>>)
                     \/ (new_comps # <<>> /\ new_comps[Len(new_comps)] = "..")
             THEN NormComps(Tail(comps), Append(new_comps, comp), initial_slashes)
             ELSE IF new_comps # <<>>
             THEN NormComps(Tail(comps), SubSeq(new_comps, 1, Len(new_comps) - 1),
                            initial_slashes)
             ELSE NormComps(Tail(comps), new_comps, initial_slashes)

\* os.path.normpath
NormPath(path) ==
    IF path = "" THEN "."
    ELSE LET initial_slashes ==
                 IF ~StartsWith(path, "/") THEN 0
                 ELSE IF StartsWith(path, "//") /\ ~StartsWith(path, "///") THEN 2
                 ELSE 1
             joined == Join(NormComps(Split(path, "/"), <<>>, initial_slashes), "/")
             full == SubSeq("//", 1, initial_slashes) \o joined
         IN  IF full = "" THEN "." ELSE full

\* os.path.isabs
IsAbs(p) == StartsWith(p, "/")

(***************************************************************************)
(* utils.py                                                                *)
(***************************************************************************)
RECURSIVE SlugChars(_)
SlugChars(s) ==
    IF s = "" THEN ""
    ELSE (IF IsAlnum(Head(s)) THEN Head(s) ELSE "_") \o SlugChars(Tail(s))

slugify(value) ==
    Let(Join(NonEmpty(Split(SlugChars(Lower(value)), "_")), "_"), LAMBDA cleaned :
        IF cleaned = "" THEN "node" ELSE cleaned)


(***************************************************************************)
(* JSON values of the untyped plan: a tag t and a payload v.  A dict is a  *)
(* record over the keys present; a missing key reads as None.              *)
(***************************************************************************)
None == [t |-> "none", v |-> ""]
Str(s) == [t |-> "str", v |-> s]
Num(n) == [t |-> "int", v |-> n]
List(xs) == [t |-> "list", v |-> xs]
Dict(d) == [t |-> "dict", v |-> d]

EmptyDict == [k \in {} |-> None]

\* dict.get(k)
Get(d, k) == IF k \in DOMAIN d THEN d[k] ELSE None

\* dict.get(k, default)
GetOr(d, k, default) == IF k \in DOMAIN d THEN d[k] ELSE default

\* truth value of a Python object
Truthy(x) ==
    CASE x.t = "none" -> FALSE
      [] x.t = "str" -> x.v # ""
      [] x.t = "int" -> x.v # 0
      [] x.t = "list" -> x.v # <<>>
      [] x.t = "dict" -> DOMAIN x.v # {}

\* x or y
Or(x, y) == IF Truthy(x) THEN x ELSE y

\* str(x) of a scalar
PyStr(x) ==
    CASE x.t = "str" -> x.v
      [] x.t = "int" -> ToString(x.v)
      [] x.t = "none" -> "None"

\* plain dicts of strings (the project specification): d.get(k) or ""
StrOf(d, k) == IF k \in DOMAIN d THEN d[k] ELSE ""

ContainsAny(s, keywords) == \E k \in keywords : Contains(s, k)

\* the extension the joined, lower-cased stack text selects (lines 26-42)
ExtensionFor(combined) ==
    IF ContainsAny(combined, {"python", "fastapi", "django", "flask"}) THEN ".py"
    ELSE IF ContainsAny(combined, {"typescript", "next", "react", "angular"}) THEN ".tsx"
    ELSE IF ContainsAny(combined, {"javascript", "node", "express"}) THEN ".js"
    ELSE IF Contains(combined, "go") THEN ".go"
    ELSE IF ContainsAny(combined, {"java", "spring"}) THEN ".java"
    ELSE IF ContainsAny(combined, {"c#", "dotnet"}) THEN ".cs"
    ELSE IF Contains(combined, "swift") THEN ".swift"
    ELSE IF Contains(combined, "kotlin") THEN ".kt"
    ELSE ".txt"

infer_default_extension(spec) ==
    Let(GetOr(spec, "technical_stack", EmptyDict), LAMBDA stack :
        ExtensionFor(Lower(Join(<<StrOf(stack, "frontend"), StrOf(stack, "backend"),
                                  StrOf(stack, "api"), StrOf(stack, "infrastructure")>>,
                                " "))))

\* one plan edge
PlanEdge(from, to, type, description) ==
    [from |-> from, to |-> to, type |-> type, description |-> description]

\* the inner loop of generate_default_edges: targets of one source
RECURSIVE DefaultEdgesFrom(_, _, _)
DefaultEdgesFrom(source, node_files, j) ==
    IF j > Len(node_files) THEN <<>>
    ELSE LET target == node_files[j]
         IN  (IF source.id = target.id THEN <<>>
              ELSE <<PlanEdge(source.id, target.id, Str("depends_on"),
                              Str(PyStr(target.label) \o " consumes outputs from "
                                  \o PyStr(source.label) \o " to stay in sync."))>>)
             \o DefaultEdgesFrom(source, node_files, j + 1)

RECURSIVE DefaultEdgesLoop(_, _)
DefaultEdgesLoop(node_files, i) ==
    IF i > Len(node_files) THEN <<>>
    ELSE DefaultEdgesFrom(node_files[i], node_files, 1) \o DefaultEdgesLoop(node_files, i + 1)

generate_default_edges(node_files) ==
    IF Len(node_files) < 2 THEN <<>> ELSE DefaultEdgesLoop(node_files, 1)

\* one plan file
PlanFile(id, file_name, label, description) ==
    [id |-> id, file_name |-> file_name, label |-> label, description |-> description]

\* the per-feature loop of fallback_metadata_plan (the description texts are
\* fixed prose; their first sentence stands for them)
RECURSIVE FeatureFiles(_, _, _, _)
FeatureFiles(features, index, backend_stack, back_ext) ==
    IF index > Len(features) THEN <<>>
    ELSE (IF backend_stack = "" THEN <<>>
          ELSE Let(features[index], LAMBDA feature :
               Let(StrOf(feature, "name"), LAMBDA name :
               Let(slugify(IF name # "" THEN name ELSE "feature_" \o ToString(index)),
                   LAMBDA feature_slug :
                   << PlanFile(feature_slug \o "_api",
                               "backend/api/" \o feature_slug \o "_routes" \o back_ext,
                               Str(GetOr(feature, "name", "Feature") \o " API"),
                               Str("REST endpoints for the " \o Lower(name)
                                   \o " functionality.")),
                      PlanFile(feature_slug \o "_service",
                               "backend/services/" \o feature_slug \o "_service" \o back_ext,
                               Str(GetOr(feature, "name", "Feature") \o " Service"),
                               Str("Business logic for processing drawing commands:")) >>))))
         \o FeatureFiles(features, index + 1, backend_stack, back_ext)

\* frontend_extension() (lines 124-131)
frontend_extension(frontend_stack) ==
    IF ContainsAny(frontend_stack, {"tsx", "react", "next", "typescript"}) THEN ".tsx"
    ELSE IF Contains(frontend_stack, "vue") THEN ".vue"
    ELSE IF Contains(frontend_stack, "svelte") THEN ".svelte"
    ELSE ".js"

\* backend_extension() (lines 133-144)
backend_extension(backend_stack, extension) ==
    IF ContainsAny(backend_stack, {"python", "fastapi", "flask", "django"}) THEN ".py"
    ELSE IF ContainsAny(backend_stack, {"typescript", "node", "express"}) THEN ".ts"
    ELSE IF Contains(backend_stack, "javascript") THEN ".js"
    ELSE IF Contains(backend_stack, "go") THEN ".go"
    ELSE IF Contains(backend_stack, "java") THEN ".java"
    ELSE extension

\* the frontend files (lines 148-191)
FrontendFiles(frontend_stack, base_slug, title, primary_feature_name, front_ext) ==
    IF frontend_stack = "" THEN <<>>
    ELSE << PlanFile(base_slug \o "_frontend_page",
                     "frontend/app/" \o base_slug \o "/page" \o front_ext,
                     Str(title \o " Page"),
                     Str("Top-level " \o Lower(primary_feature_name) \o " interface.")),
            PlanFile(base_slug \o "_canvas_component",
                     "frontend/components/" \o base_slug \o "_canvas" \o front_ext,
                     Str(primary_feature_name \o " Component"),
                     Str("Encapsulates the interactive canvas for "
                         \o Lower(primary_feature_name) \o ".")),
            PlanFile(base_slug \o "_frontend_api",
                     "frontend/lib/" \o base_slug \o "_api.ts",
                     Str("Frontend API Client"),
                     Str("Client-side wrapper for calling the drawing REST endpoints.")) >>

\* the backend files (lines 193-243)
BackendFiles(features, backend_stack, base_slug, back_ext) ==
    IF features = <<>> THEN <<>>
    ELSE FeatureFiles(features, 1, backend_stack, back_ext)
         \o (IF backend_stack = "" THEN <<>>
             ELSE << PlanFile(base_slug \o "_storage",
                              "backend/storage/" \o base_slug \o "_store" \o back_ext,
                              Str("Storage Integration"),
                              Str("Abstraction over persistence.")),
                     PlanFile(base_slug \o "_schema",
                              "backend/schemas/" \o base_slug \o "_schema" \o back_ext,
                              Str("Request/Response Schemas"),
                              Str("Pydantic (or equivalent) models.")) >>)

\* the entry file that stands in when no file was declared (lines 245-253)
OrEntryFile(declared, spec, base_slug, entry_file_name) ==
    IF declared = <<>>
    THEN << PlanFile(base_slug, entry_file_name, Str(Basename(entry_file_name)),
                     Str(GetOr(spec, "summary",
                               "Implement the main application entrypoint."))) >>
    ELSE declared

\* the launcher script node (lines 255-265)
WithLauncher(node_files, base_slug) ==
    IF \E i \in 1..Len(node_files) : node_files[i].file_name = "scripts/run_app.sh"
    THEN node_files
    ELSE Append(node_files,
                PlanFile(base_slug \o "_launcher", "scripts/run_app.sh",
                         Str("Run App Script"),
                         Str("Shell script that boots both backend and frontend.")))

\* the plan over the files of the fallback plan (lines 266-267)
PlanOf(node_files) == [files |-> node_files, edges |-> generate_default_edges(node_files)]

fallback_metadata_plan(spec) ==
    Let(GetOr(spec, "primary_features", <<>>), LAMBDA features :
    Let(infer_default_extension(spec), LAMBDA extension :
    Let(GetOr(spec, "technical_stack", EmptyDict), LAMBDA stack :
    Let(Lower(StrOf(stack, "frontend")), LAMBDA frontend_stack :
    Let(Lower(StrOf(stack, "backend")), LAMBDA backend_stack :
    Let(GetOr(spec, "title", "App"), LAMBDA title :
    Let(slugify(title), LAMBDA base_slug :
        PlanOf(WithLauncher(
            OrEntryFile(
                FrontendFiles(frontend_stack, base_slug, title,
                              GetOr(IF features # <<>> THEN features[1] ELSE EmptyDict,
                                    "name", title),
                              frontend_extension(frontend_stack))
                \o BackendFiles(features, backend_stack, base_slug,
                                backend_extension(backend_stack, extension)),
                spec, base_slug, "backend/" \o base_slug \o extension),
            base_slug)))))))))


\* the alias keys one surviving entry adds to id_map (lines 318-326)
AliasKeys(entry, raw_file_name, normalized_path, node_id) ==
    {Lower(PyStr(key)) : key \in {k \in {Get(entry, "id"), raw_file_name,
                                         Str(normalized_path),
                                         Str(Basename(normalized_path)),
                                         Str(node_id)} : Truthy(k)}}

\* the id reservation were a taken id counted but given out again unchanged
ReserveId_NoSuffix(used_ids, node_id) ==
    IF node_id \in DOMAIN used_ids
    THEN [id |-> node_id, used |-> [used_ids EXCEPT ![node_id] = @ + 1]]
    ELSE [id |-> node_id, used |-> (node_id :> 1) @@ used_ids]

\* id reservation of sanitize_plan (lines 302-306): the id handed out and
\* the updated used_ids counter table
ReserveId(used_ids, node_id) ==
    IF node_id \in DOMAIN used_ids
    THEN [id |-> node_id \o "_" \o ToString(used_ids[node_id] + 1),
          used |-> [used_ids EXCEPT ![node_id] = @ + 1]]
    ELSE [id |-> node_id, used |-> (node_id :> 1) @@ used_ids]

\* the path value of a raw entry, under any of the accepted keys (line 285)
RawFileName(d) ==
    Or(Or(Or(Get(d, "file_name"), Get(d, "path")), Get(d, "name")), Get(d, "label"))

\* ResolvePath without the check of lines 297-298
ResolvePath_NoClimbCheck(raw_file_name, default_extension) ==
    Let(Replace(Strip(raw_file_name.v), "\\", "/"), LAMBDA stripped :
        IF stripped = "" THEN [kind |-> "skip", raw |-> raw_file_name, path |-> ""]
        ELSE Let(Replace(NormPath(IF SplitExt(Basename(stripped))[2] = ""
                                  THEN stripped \o default_extension ELSE stripped),
                         "\\", "/"),
                 LAMBDA normalized_path :
                     [kind |-> "keep", raw |-> raw_file_name, path |-> normalized_path]))

\* lines 289-298: the path a raw file name that is a string resolves to
ResolvePath(raw_file_name, default_extension) ==
    Let(Replace(Strip(raw_file_name.v), "\\", "/"), LAMBDA stripped :
        IF stripped = "" THEN [kind |-> "skip", raw |-> raw_file_name, path |-> ""]
        ELSE Let(Replace(NormPath(IF SplitExt(Basename(stripped))[2] = ""
                                  THEN stripped \o default_extension ELSE stripped),
                         "\\", "/"),
                 LAMBDA normalized_path :
                     IF StartsWith(normalized_path, "..")
                     THEN [kind |-> "skip", raw |-> raw_file_name, path |-> normalized_path]
                     ELSE [kind |-> "keep", raw |-> raw_file_name, path |-> normalized_path]))

\* path resolution of one raw entry (lines 282-298): what the entry resolves
\* to, or why it is skipped, or that the call raises (strip of a value that
\* is not a string)
ResolveEntry(entry, default_extension) ==
    IF entry.t # "dict" THEN [kind |-> "skip", raw |-> None, path |-> ""]
    ELSE Let(RawFileName(entry.v), LAMBDA raw_file_name :
             IF ~Truthy(raw_file_name)
             THEN [kind |-> "skip", raw |-> raw_file_name, path |-> ""]
             ELSE IF raw_file_name.t # "str"
             THEN [kind |-> "raise", raw |-> raw_file_name, path |-> ""]
             ELSE ResolvePath(raw_file_name, default_extension))

\* lines 300-326: acc after the entry d, resolved to res, is kept as the
\* file of raw index i
KeepEntry(acc, i, d, res, spec) ==
    Let(ReserveId(acc.used_ids,
                  slugify(PyStr(Or(Get(d, "id"), Str(SplitExt(Basename(res.path))[1]))))),
        LAMBDA reserved :
    Let(AliasKeys(d, res.raw, res.path, reserved.id), LAMBDA keys :
        [files |-> Append(acc.files,
                          PlanFile(reserved.id, res.path,
                                   Or(Get(d, "label"), Str(Basename(res.path))),
                                   Or(Get(d, "description"),
                                      Str(GetOr(spec, "summary", ""))))),
         origins |-> Append(acc.origins, i),
         id_map |-> [k \in DOMAIN acc.id_map \cup keys |->
                        IF k \in keys THEN reserved.id ELSE acc.id_map[k]],
         used_ids |-> reserved.used,
         raised |-> FALSE]))

\* the file loop of sanitize_plan (lines 281-326); acc carries sanitized_files,
\* id_map, used_ids, whether the loop raised, and for every kept file the
\* index of the raw entry it comes from
RECURSIVE FileLoop(_, _, _, _, _)
FileLoop(raw_files, i, acc, default_extension, spec) ==
    IF i > Len(raw_files) \/ acc.raised THEN acc
    ELSE Let(ResolveEntry(raw_files[i], default_extension), LAMBDA res :
             IF res.kind = "raise" THEN [acc EXCEPT !.raised = TRUE]
             ELSE FileLoop(raw_files, i + 1,
                           IF res.kind = "skip" THEN acc
                           ELSE KeepEntry(acc, i, raw_files[i].v, res, spec),
                           default_extension, spec))

\* label_map of sanitize_plan (line 331): a later file with the same id wins
LabelOf(files, id) ==
    files[CHOOSE i \in 1..Len(files) :
              files[i].id = id /\ \A j \in (i + 1)..Len(files) : files[j].id # id].label

\* the edge of a raw entry were the test from_id == to_id of line 346 left out
SanitizedEdge_KeepsSelfLoops(entry, id_map, files) ==
    IF entry.t # "dict" THEN <<>>
    ELSE Let(Or(Get(entry.v, "from"), Get(entry.v, "source")), LAMBDA raw_from :
         Let(Or(Get(entry.v, "to"), Get(entry.v, "target")), LAMBDA raw_to :
             IF ~Truthy(raw_from) \/ ~Truthy(raw_to) THEN <<>>
             ELSE Let(GetOr(id_map, Lower(PyStr(raw_from)), ""), LAMBDA from_id :
                  Let(GetOr(id_map, Lower(PyStr(raw_to)), ""), LAMBDA to_id :
                      IF from_id = "" \/ to_id = "" THEN <<>>
                      ELSE <<PlanEdge(from_id, to_id,
                                      Or(Get(entry.v, "type"), Str("depends_on")),
                                      Or(Get(entry.v, "description"),
                                         Str(PyStr(LabelOf(files, from_id))
                                             \o " interacts with "
                                             \o PyStr(LabelOf(files, to_id)) \o ".")))>>))))

\* the edge one raw edge entry gives (lines 337-356): <<>> when it is dropped
SanitizedEdge(entry, id_map, files) ==
    IF entry.t # "dict" THEN <<>>
    ELSE Let(Or(Get(entry.v, "from"), Get(entry.v, "source")), LAMBDA raw_from :
         Let(Or(Get(entry.v, "to"), Get(entry.v, "target")), LAMBDA raw_to :
             IF ~Truthy(raw_from) \/ ~Truthy(raw_to) THEN <<>>
             ELSE Let(GetOr(id_map, Lower(PyStr(raw_from)), ""), LAMBDA from_id :
                  Let(GetOr(id_map, Lower(PyStr(raw_to)), ""), LAMBDA to_id :
                      IF from_id = "" \/ to_id = "" \/ from_id = to_id THEN <<>>
                      ELSE <<PlanEdge(from_id, to_id,
                                      Or(Get(entry.v, "type"), Str("depends_on")),
                                      Or(Get(entry.v, "description"),
                                         Str(PyStr(LabelOf(files, from_id))
                                             \o " interacts with "
                                             \o PyStr(LabelOf(files, to_id)) \o ".")))>>))))

\* the edge loop of sanitize_plan (lines 336-356)
RECURSIVE EdgeLoop(_, _, _, _)
EdgeLoop(raw_edges, i, id_map, files) ==
    IF i > Len(raw_edges) THEN <<>>
    ELSE SanitizedEdge(raw_edges[i], id_map, files)
         \o EdgeLoop(raw_edges, i + 1, id_map, files)

NoFn == [k \in {} |-> ""]

\* the fallback plan as sanitize_plan returns it (lines 275 and 329)
Fallen(fallback) ==
    [status |-> "ok", fallback |-> TRUE, files |-> fallback.files,
     edges |-> fallback.edges, origins |-> [i \in 1..Len(fallback.files) |-> 0],
     defaulted |-> FALSE]

\* lines 328-361: the plan over what the file loop left in acc; defaulted
\* records that line 359 ran, no raw edge having survived the loop
PlanFrom(acc, raw_edges, spec) ==
    IF acc.raised
    THEN [status |-> "raise", fallback |-> FALSE, files |-> <<>>,
          edges |-> <<>>, origins |-> <<>>, defaulted |-> FALSE]
    ELSE IF acc.files = <<>> THEN Fallen(fallback_metadata_plan(spec))
    ELSE Let(IF raw_edges.t = "list"
             THEN EdgeLoop(raw_edges.v, 1, acc.id_map, acc.files) ELSE <<>>,
             LAMBDA sanitized_edges :
                 [status |-> "ok", fallback |-> FALSE, files |-> acc.files,
                  edges |-> IF sanitized_edges = <<>>
                            THEN generate_default_edges(acc.files)
                            ELSE sanitized_edges,
                  origins |-> acc.origins,
                  defaulted |-> sanitized_edges = <<>>])

\* no sanitize_plan call was made
NotRun == [status |-> "none", fallback |-> FALSE, files |-> <<>>, edges |-> <<>>,
           origins |-> <<>>, defaulted |-> FALSE]

\* the bookkeeping were used_ids kept from one call to the next: the ids of
\* the plan returned before are taken
Bookkeeping_KeptAcrossCalls(previous) ==
    [files |-> <<>>, origins |-> <<>>, id_map |-> NoFn,
     used_ids |-> [id \in {previous.files[k].id : k \in 1..Len(previous.files)} |-> 1],
     raised |-> FALSE]

\* lines 276-278: sanitized_files, id_map and used_ids are locals of the
\* call, empty at its start whatever plan an earlier call returned
Bookkeeping(previous) ==
    [files |-> <<>>, origins |-> <<>>, id_map |-> NoFn, used_ids |-> NoFn,
     raised |-> FALSE]

\* a sanitize_plan call made after the call that returned previous
sanitize_plan_after(previous, plan, spec) ==
    Let(Get(plan, "files"), LAMBDA raw_files :
        IF raw_files.t # "list" \/ raw_files.v = <<>>
        THEN Fallen(fallback_metadata_plan(spec))
        ELSE PlanFrom(FileLoop(raw_files.v, 1, Bookkeeping(previous),
                               infer_default_extension(spec), spec),
                      Get(plan, "edges"), spec))

\* sanitize_plan: the returned plan; origins[i] is the raw index of files[i]
\* (0 for a file of the fallback plan), status "raise" when the call raises
sanitize_plan(plan, spec) == sanitize_plan_after(NotRun, plan, spec)


(***************************************************************************)
(* code_generation.py                                                      *)
(***************************************************************************)
\* pathlib: base / p  (an absolute p replaces base)
PathJoin(base, p) ==
    IF IsAbs(p) THEN p
    ELSE IF base = "" THEN p
    ELSE base \o "/" \o p

\* one pass of the file loop of prepare_project_workspace (lines 237-282):
\* acc after the plan file file_entry
PrepareFile(file_entry, acc) ==
    Let(Strip(file_entry.file_name), LAMBDA stripped :
        IF file_entry.file_name = "" \/ stripped = "" THEN acc
        ELSE Let(NormPath(IF "." \in Chars(Basename(stripped)) THEN stripped
                          ELSE stripped \o ".txt"),
                 LAMBDA normalized_path :
                     IF StartsWith(normalized_path, "..") THEN acc
                     ELSE Let(Replace(normalized_path, "\\", "/"), LAMBDA file_name :
                          Let(slugify(IF file_entry.id # "" THEN file_entry.id
                                      ELSE file_name),
                              LAMBDA node_id :
                                  [metadata_payload |->
                                       (node_id :> file_name) @@ acc.metadata_payload,
                                   created_files |->
                                       Append(acc.created_files,
                                              [id |-> node_id, file_name |-> file_name]),
                                   written |->
                                       acc.written \cup {PathJoin("nodes", file_name)}]))))

\* the file loop of prepare_project_workspace: metadata payload (node id ->
\* fileName), created_files and the paths written
RECURSIVE PrepareLoop(_, _, _)
PrepareLoop(files_plan, i, acc) ==
    IF i > Len(files_plan) THEN acc
    ELSE PrepareLoop(files_plan, i + 1, PrepareFile(files_plan[i], acc))

\* the result of prepare_project_workspace over what the loop left in acc
WorkspaceOf(acc) ==
    [status |-> IF DOMAIN acc.metadata_payload = {} THEN "error" ELSE "ok",
     metadata_payload |-> acc.metadata_payload,
     created_files |-> acc.created_files,
     written |-> acc.written]

\* prepare_project_workspace on the plan the planner call returned
prepare_project_workspace(plan) ==
    IF plan.status # "ok" \/ plan.files = <<>>
    THEN [status |-> "error", metadata_payload |-> NoFn, created_files |-> <<>>,
          written |-> {}]
    ELSE WorkspaceOf(PrepareLoop(plan.files, 1,
                                 [metadata_payload |-> NoFn, created_files |-> <<>>,
                                  written |-> {}]))

(***************************************************************************)
(* Inputs of the plan specification                                        *)
(***************************************************************************)
MaxPlanFiles == 3

RawIds == {"a", "a_2"}
RawPaths == {"a.py", "b/../a.py", "../a.py", " /A"}

WithId(d, id) == ("id" :> Str(id)) @@ d

\* entries naming a file by path alone, and entries that also carry an id
PathEntries ==
    {Dict([file_name |-> Str(p)]) : p \in RawPaths}
    \cup {Dict(WithId([file_name |-> Str("a.py")], id)) : id \in RawIds}

MalformedEntries ==
    { Str("a.py"),                         \* not a mapping
      Dict([id |-> Str("a")]),             \* no path key
      Dict([file_name |-> Num(5)]) }       \* path value that is not a string

RawEntries == PathEntries \cup MalformedEntries

RawFileLists == UNION {[1..n -> RawEntries] : n \in 0..MaxPlanFiles}

RawEdgeLists ==
    { <<>>,
      <<Dict([from |-> Str("a"), to |-> Str("a_2")])>>,
      <<Dict([source |-> Str("A.PY"), target |-> Str("a_2"), type |-> Str("calls")])>>,
      <<Dict([from |-> Str("a"), to |-> Str("zz")]),          \* unresolved endpoint
        Dict([from |-> Str("a_2"), to |-> Str("a.py")])>> }

DefaultSpec == [title |-> "App", summary |-> "s"]

Features == { <<>>, <<[name |-> "x"]>>, <<[name |-> "x"], [name |-> "x"]>>,
              <<[name |-> "App Frontend"]>>, <<EmptyDict>> }

ProjectSpecs ==
    { [title |-> t, primary_features |-> f,
       technical_stack |-> [frontend |-> fe, backend |-> be]] :
          t \in {"App", "../x"}, f \in Features, fe \in {"", "React"},
          be \in {"", "FastAPI"} }
    \cup {EmptyDict, DefaultSpec}

\* plans whose files are missing, not a list, empty, or entirely invalid
UnusablePlans ==
    { EmptyDict, [files |-> Str("a.py")], [files |-> List(<<>>)],
      [files |-> List(<<Dict([file_name |-> Str("../a.py")])>>)] }

NoWorkspace == [status |-> "none", metadata_payload |-> NoFn, created_files |-> <<>>,
                written |-> {}]


(***************************************************************************)
(* The metadata document is a JSON object: a Python dict, which keeps the  *)
(* insertion order of its keys.  It is a sequence of entries [k, r].       *)
(***************************************************************************)
Null == "<None>"

Keys(md) == {md[i].k : i \in 1..Len(md)}

Has(md, k) == k \in Keys(md)

\* md[k]
At(md, k) == md[CHOOSE i \in 1..Len(md) : md[i].k = k].r

\* md[k] = r: an existing key keeps its place, a new key goes last
Put(md, k, r) ==
    IF Has(md, k)
    THEN [i \in 1..Len(md) |-> IF md[i].k = k THEN [k |-> k, r |-> r] ELSE md[i]]
    ELSE Append(md, [k |-> k, r |-> r])

\* del md[k]
Del(md, k) == SelectSeq(md, LAMBDA e : e.k # k)

\* a record with one key set / without one key
With(r, key, val) == (key :> val) @@ r

Without(r, keys) == [k \in DOMAIN r \ keys |-> r[k]]

\* a truthy node id (neither None nor empty)
IsId(x) == x # Null /\ x # ""

(***************************************************************************)
(* The directory CANVAS_DIR: fs.files maps the path of every regular file  *)
(* to its content, fs.dirs is the set of directories; paths are relative   *)
(* to CANVAS_DIR, whose own path is "".                                    *)
(***************************************************************************)
Exists(fs, p) == p = "" \/ p \in DOMAIN fs.files \/ p \in fs.dirs

\* the directories above p
Ancestors(p) ==
    LET parts == Split(p, "/")
    IN  {Join(SubSeq(parts, 1, n), "/") : n \in 1..(Len(parts) - 1)}

\* Path.parent
Parent(p) ==
    LET parts == Split(p, "/") IN Join(SubSeq(parts, 1, Len(parts) - 1), "/")

\* p.parent.mkdir(parents=True, exist_ok=True)
MkParents(fs, p) == [fs EXCEPT !.dirs = @ \cup Ancestors(p)]

\* p.mkdir(parents=True, exist_ok=True)
MkDir(fs, p) == [fs EXCEPT !.dirs = @ \cup Ancestors(p) \cup ({p} \ {""})]

\* p.write_text(content)
WriteText(fs, p, content) == [fs EXCEPT !.files = (p :> content) @@ @]

\* p.unlink()
Unlink(fs, p) == [fs EXCEPT !.files = [q \in DOMAIN @ \ {p} |-> @[q]]]

Under(p, dir) == p = dir \/ StartsWith(p, dir \o "/")

\* shutil.rmtree(dir)
RmTree(fs, dir) ==
    [fs EXCEPT !.files = [q \in {q \in DOMAIN fs.files : ~Under(q, dir)} |-> fs.files[q]],
               !.dirs = {d \in fs.dirs : ~Under(d, dir)}]

\* shutil.move(src, dst) of a regular file onto a file path: an existing
\* destination file is replaced
MoveFile(fs, src, dst) ==
    [fs EXCEPT !.files = (dst :> @[src]) @@ [q \in DOMAIN @ \ {src} |-> @[q]]]

\* the "nodes/" prefixes CANVAS_DIR already accounts for
RECURSIVE Clean(_)
Clean(file_name) ==
    IF StartsWith(file_name, "nodes/") THEN Clean(SubSeq(file_name, 7, Len(file_name)))
    ELSE file_name

\* directory d is above directory e
DirAbove(d, e) == d # e /\ (d = "" \/ Under(e, d))

\* the os.walk search of _resolve_file_path (lines 40-42): the first
\* directory, top-down, that holds a file called base; "" when there is none.
\* A directory is walked before the directories below it.
WalkFind(fs, base) ==
    Let({q \in DOMAIN fs.files : Basename(q) = base}, LAMBDA found :
        IF found = {} THEN ""
        ELSE CHOOSE q \in found : \A o \in found : ~DirAbove(Parent(o), Parent(q)))

\* file_path.parent.mkdir(parents=True, exist_ok=True) raises an OSError
\* (FileExistsError) when a regular file stands where a directory is needed
Blocked(fs, file_path) == Ancestors(file_path) \cap DOMAIN fs.files # {}

\* _resolve_file_path: the resolved path and the directory afterwards
\* (_generate_placeholder_content always returns ""); raised when the
\* placeholder cannot be made (lines 45-47)
resolve_file_path(fs, file_name) ==
    Let(PathJoin("", Clean(file_name)), LAMBDA file_path :
        IF Exists(fs, file_path)
        THEN [path |-> file_path, fs |-> fs, raised |-> FALSE]
        ELSE Let(WalkFind(fs, Basename(file_name)), LAMBDA hit :
                 IF hit # "" THEN [path |-> hit, fs |-> fs, raised |-> FALSE]
                 ELSE IF Blocked(fs, file_path)
                 THEN [path |-> file_path, fs |-> fs, raised |-> TRUE]
                 ELSE [path |-> file_path,
                       fs |-> WriteText(MkParents(fs, file_path), file_path, ""),
                       raised |-> FALSE]))

\* a FileNode of files_db
FileNode(id, label, filePath, content, x, y, status, parentFolder) ==
    [id |-> id, label |-> label, filePath |-> filePath, content |-> content,
     x |-> x, y |-> y, status |-> status, parentFolder |-> parentFolder]

\* lines 63-71: the content read from the resolved file and the directory
\* afterwards; a file that cannot be read gives "", a blank file is
\* rewritten with the placeholder
ReadNode(res) ==
    IF res.path \notin DOMAIN res.fs.files THEN [content |-> "", fs |-> res.fs]
    ELSE IF Strip(res.fs.files[res.path]) = ""
    THEN [content |-> "", fs |-> WriteText(res.fs, res.path, "")]
    ELSE [content |-> res.fs.files[res.path], fs |-> res.fs]

\* lines 74-99: the index entry of the node, updated or new
IndexNode(db, node_id, label, file_name, content, node_meta) ==
    IF node_id \in DOMAIN db
    THEN FileNode(db[node_id].id, label, file_name, content,
                  GetOr(node_meta, "x", db[node_id].x), GetOr(node_meta, "y", db[node_id].y),
                  db[node_id].status, GetOr(node_meta, "parentFolder", Null))
    ELSE FileNode(node_id, label, file_name, content,
                  GetOr(node_meta, "x", 0), GetOr(node_meta, "y", 0), "idle",
                  GetOr(node_meta, "parentFolder", Null))

\* _create_or_update_file_node: st = [db, fs]; returns db, fs and node_meta,
\* which the method changes in place when it carries no fileName
create_or_update_file_node(st, node_id, node_meta) ==
    Let(IF GetOr(node_meta, "fileName", "") # "" THEN node_meta.fileName
        ELSE node_id \o ".txt",
        LAMBDA file_name :
    Let(resolve_file_path(st.fs, file_name), LAMBDA res :
    Let(ReadNode(res), LAMBDA read :
        [db |-> IF res.raised THEN st.db
                ELSE (node_id :> IndexNode(st.db, node_id, Basename(res.path), file_name,
                                           read.content, node_meta)) @@ st.db,
         fs |-> read.fs,
         meta |-> IF "fileName" \notin DOMAIN node_meta
                  THEN With(node_meta, "fileName", file_name) ELSE node_meta,
         raised |-> res.raised])))

\* the node loop of refresh_files_from_metadata (lines 107-110); the loop
\* ends at the node whose placeholder cannot be made
RECURSIVE RefreshLoop(_, _, _)
RefreshLoop(md, i, st) ==
    IF i > Len(md) THEN [md |-> md, db |-> st.db, fs |-> st.fs, raised |-> FALSE]
    ELSE IF GetOr(md[i].r, "type", "") # "file" THEN RefreshLoop(md, i + 1, st)
    ELSE Let(create_or_update_file_node(st, md[i].k, md[i].r), LAMBDA res :
             IF res.raised
             THEN [md |-> [md EXCEPT ![i].r = res.meta], db |-> res.db, fs |-> res.fs,
                   raised |-> TRUE]
             ELSE RefreshLoop([md EXCEPT ![i].r = res.meta], i + 1,
                              [db |-> res.db, fs |-> res.fs]))

\* active_ids of refresh_files_from_metadata (lines 106-109)
ActiveIds(md) == {md[i].k : i \in {j \in 1..Len(md) : GetOr(md[j].r, "type", "") = "file"}}

\* refresh_files_from_metadata(md): w = [md (the document), db, fs]; returns
\* the dict md as the call leaves it, the index and the directory
\* the stale entries are removed (lines 112-114) unless the loop raised
refresh_files_from_metadata(w, md) ==
    Let(RefreshLoop(md, 1, [db |-> w.db, fs |-> w.fs]), LAMBDA res :
        [md |-> res.md,
         db |-> IF res.raised THEN res.db
                ELSE [id \in DOMAIN res.db \cap ActiveIds(md) |-> res.db[id]],
         fs |-> res.fs])

\* the refresh of md raises the OSError of a placeholder that cannot be made
RefreshRaises(w, md) == RefreshLoop(md, 1, [db |-> w.db, fs |-> w.fs]).raised

\* load_metadata on a document that is present and parses (the other
\* cases are load_metadata_file)
load_metadata(w) == w.md

\* save_metadata(md): refresh from md, then write md as the document; an
\* IOError of the refresh or of the write is caught and printed (lines
\* 130-131), the document keeps its content
save_metadata(w, md) ==
    Let(refresh_files_from_metadata(w, md), LAMBDA res :
        IF w.fs.metadata_writable /\ ~RefreshRaises(w, md)
        THEN res ELSE [res EXCEPT !.md = w.md])

(***************************************************************************)
(* FileDatabase (database.py).  A world w = [md, db, fs] is the document,  *)
(* the index and the directory; every method returns the world it leaves.  *)
(***************************************************************************)
\* lines 136-146: the loaded document with the record of node_id rewritten
NodeUpdated(md, node_id, node_type, description, x, y) ==
    Put(md, node_id,
        [id |-> node_id, type |-> node_type, description |-> description,
         x |-> x, y |-> y]
        @@ Without(IF Has(md, node_id) THEN At(md, node_id) ELSE EmptyDict,
                   {"id", "type", "description", "x", "y"}))

update_node_metadata(w, node_id, node_type, description, x, y) ==
    save_metadata(w, NodeUpdated(load_metadata(w), node_id, node_type, description, x, y))

remove_node_metadata(w, node_id) ==
    Let(load_metadata(w), LAMBDA md :
        IF Has(md, node_id) THEN save_metadata(w, Del(md, node_id)) ELSE w)

\* the id create_file gives the new node (line 171)
NewFileId(db) == ToString(Cardinality(DOMAIN db) + 1)

\* lines 199-203 of create_file: the fileName written into the new record
SetFileName(w, file_id, filePath) ==
    Let(load_metadata(w), LAMBDA md :
        IF Has(md, file_id)
        THEN save_metadata(w, Put(md, file_id, With(At(md, file_id), "fileName", filePath)))
        ELSE w)

\* create_file without the duplicate test of lines 167-169
create_file_NoDuplicateTest(w, filePath, content, description) ==
    Let(NewFileId(w.db), LAMBDA file_id :
         Let(PathJoin("", Clean(filePath)), LAMBDA file_path :
             [status |-> "ok", id |-> file_id,
              w |-> SetFileName(
                        update_node_metadata(
                            [md |-> w.md,
                             db |-> (file_id :> FileNode(file_id, Basename(filePath), filePath,
                                                         content, 100, 100, "idle", Null))
                                    @@ w.db,
                             fs |-> WriteText(MkParents(w.fs, file_path), file_path, content)],
                            file_id, "file", description, 100, 100),
                        file_id, filePath)]))

\* create_file: status "duplicate" is the ValueError of lines 167-169
create_file(w, filePath, content, description) ==
    IF \E id \in DOMAIN w.db : w.db[id].filePath = filePath
    THEN [status |-> "duplicate", id |-> "", w |-> w]
    ELSE Let(NewFileId(w.db), LAMBDA file_id :
         Let(PathJoin("", Clean(filePath)), LAMBDA file_path :
             [status |-> "ok", id |-> file_id,
              w |-> SetFileName(
                        update_node_metadata(
                            [md |-> w.md,
                             db |-> (file_id :> FileNode(file_id, Basename(filePath), filePath,
                                                         content, 100, 100, "idle", Null))
                                    @@ w.db,
                             fs |-> WriteText(MkParents(w.fs, file_path), file_path, content)],
                            file_id, "file", description, 100, 100),
                        file_id, filePath)]))

\* lines 262-272 of delete_file: the file is unlinked, the record and the
\* index entry removed
RemoveNode(w, file_id, file_path) ==
    Let(remove_node_metadata([w EXCEPT !.fs = Unlink(@, file_path)], file_id), LAMBDA w2 :
        [w2 EXCEPT !.db = [id \in DOMAIN @ \ {file_id} |-> @[id]]])

\* delete_file: "not_found" is the ValueError of line 256, "error" an OSError
\* of unlink on a directory
delete_file(w, file_id) ==
    Let(load_metadata(w), LAMBDA md :
        IF ~Has(md, file_id) THEN [status |-> "not_found", w |-> w]
        ELSE Let(PathJoin("", GetOr(At(md, file_id), "fileName", file_id \o ".txt")),
                 LAMBDA file_path :
                     IF Exists(w.fs, file_path) /\ file_path \notin DOMAIN w.fs.files
                     THEN [status |-> "error", w |-> w]
                     ELSE [status |-> "ok", w |-> RemoveNode(w, file_id, file_path)]))

\* Path.write_text succeeds on a path that is no directory and whose parent
\* directory exists
Writable(fs, p) == p # "" /\ p \notin fs.dirs /\ (Parent(p) = "" \/ Parent(p) \in fs.dirs)

\* update_file_content: "not_found" is the ValueError of line 210, "error" an
\* OSError of write_text, raised after the index entry was changed
update_file_content(w, file_id, content) ==
    IF file_id \notin DOMAIN w.db THEN [status |-> "not_found", w |-> w]
    ELSE Let(PathJoin("", Clean(w.db[file_id].filePath)), LAMBDA file_path :
             IF Writable(w.fs, file_path)
             THEN [status |-> "ok",
                   w |-> [w EXCEPT !.db[file_id].content = content,
                                   !.fs = WriteText(@, file_path, content)]]
             ELSE [status |-> "error", w |-> [w EXCEPT !.db[file_id].content = content]])

\* infer_file_type_from_name over FILE_TYPE_MAP (config.py)
infer_file_type_from_name(file_name) ==
    Let(Lower(SplitExt(file_name)[2]), LAMBDA ext :
        IF ext = ".py" THEN "python" ELSE IF ext = ".js" THEN "javascript"
        ELSE IF ext = ".ts" THEN "typescript" ELSE IF ext = ".json" THEN "json"
        ELSE IF ext = ".html" THEN "html" ELSE IF ext = ".css" THEN "css"
        ELSE IF ext = ".md" THEN "markdown" ELSE "text")

\* line 239 of update_file_position: the description the record keeps
ExistingDescription(md, node) ==
    GetOr(IF Has(md, node.id) THEN At(md, node.id) ELSE EmptyDict, "description",
          "File: " \o node.filePath \o " ("
          \o infer_file_type_from_name(Basename(node.filePath)) \o ")")

\* update_file_position
update_file_position(w, file_id, x, y) ==
    IF file_id \notin DOMAIN w.db THEN [status |-> "not_found", w |-> w]
    ELSE [status |-> "ok",
          w |-> update_node_metadata([w EXCEPT !.db[file_id].x = x, !.db[file_id].y = y],
                                     file_id, "file",
                                     ExistingDescription(load_metadata(w), w.db[file_id]),
                                     x, y)]

\* update_file_description that creates the record of an id the index lacks
update_file_description_Upserts(w, file_id, description) ==
    IF file_id \notin DOMAIN w.db
    THEN [status |-> "ok",
          w |-> update_node_metadata(w, file_id, "file", description, 0, 0)]
    ELSE [status |-> "ok",
          w |-> update_node_metadata(w, file_id, "file", description,
                                     w.db[file_id].x, w.db[file_id].y)]

\* update_file_description
update_file_description(w, file_id, description) ==
    IF file_id \notin DOMAIN w.db THEN [status |-> "not_found", w |-> w]
    ELSE [status |-> "ok",
          w |-> update_node_metadata(w, file_id, "file", description,
                                     w.db[file_id].x, w.db[file_id].y)]

(***************************************************************************)
(* Folder and move handlers (main.py)                                      *)
(***************************************************************************)
\* the id create_folder gives the new folder (line 792)
NewFolderId(md) ==
    "folder_" \o ToString(Cardinality({k \in Keys(md) : StartsWith(k, "folder_")}) + 1)

\* the record of a new folder (lines 798-811)
FolderData(folder_id, name, parentFolder) ==
    [id |-> folder_id, type |-> "folder", name |-> name,
     x |-> 100, y |-> 100, width |-> 600, height |-> 400,
     isExpanded |-> TRUE, containedFiles |-> <<>>,
     parentFolder |-> parentFolder,
     description |-> "Folder: " \o name, folderPath |-> name]

create_folder(w, name, parentFolder) ==
    Let(load_metadata(w), LAMBDA md :
    Let(NewFolderId(md), LAMBDA folder_id :
        [status |-> "ok", id |-> folder_id,
         w |-> save_metadata([w EXCEPT !.fs = MkDir(@, PathJoin("", name))],
                             Put(md, folder_id, FolderData(folder_id, name, parentFolder)))]))

IsFolder(md, id) == Has(md, id) /\ GetOr(At(md, id), "type", "") = "folder"

\* lines 833-846: the loaded document with the fields of folder_update set
FolderUpdated(md, folder_id, folder_update) ==
    Put(md, folder_id, folder_update @@ At(md, folder_id))

\* update_folder: folder_update is a record of the fields that are not None
update_folder(w, folder_id, folder_update) ==
    Let(load_metadata(w), LAMBDA md :
        IF ~IsFolder(md, folder_id) THEN [status |-> "not_found", w |-> w]
        ELSE [status |-> "ok",
              w |-> save_metadata(w, FolderUpdated(md, folder_id, folder_update))])

\* the contained-node loop of delete_folder (lines 885-890): acc = [w, md]
RECURSIVE DeleteContained(_, _, _)
DeleteContained(files_to_delete, i, acc) ==
    IF i > Len(files_to_delete) THEN acc
    ELSE Let(delete_file(acc.w, files_to_delete[i]), LAMBDA res :
             DeleteContained(files_to_delete, i + 1,
                 IF res.status = "ok"
                 THEN [w |-> res.w, md |-> Del(acc.md, files_to_delete[i])]
                 ELSE acc))

\* files_to_delete of delete_folder (lines 879-882)
FilesToDelete(md, folder_id) ==
    Let(SelectSeq(md, LAMBDA e : GetOr(e.r, "parentFolder", Null) = folder_id),
        LAMBDA hits : [j \in 1..Len(hits) |-> hits[j].k])

\* lines 866-873 of delete_folder: the directory of the folder is removed
RemoveFolderDir(w, folder_name) ==
    IF folder_name # "" /\ PathJoin("", folder_name) \in w.fs.dirs
    THEN [w EXCEPT !.fs = RmTree(@, PathJoin("", folder_name))] ELSE w

delete_folder(w, folder_id) ==
    Let(load_metadata(w), LAMBDA md :
        IF ~IsFolder(md, folder_id) THEN [status |-> "not_found", w |-> w]
        ELSE Let(Del(md, folder_id), LAMBDA md1 :
             Let(DeleteContained(FilesToDelete(md1, folder_id), 1,
                                 [w |-> RemoveFolderDir(w, GetOr(At(md, folder_id), "name", "")),
                                  md |-> md1]),
                 LAMBDA acc : [status |-> "ok", w |-> save_metadata(acc.w, acc.md)])))

\* the name of the folder a folder id names, "" when there is none
FolderName(md, folder_id) ==
    IF IsId(folder_id) /\ Has(md, folder_id)
    THEN GetOr(At(md, folder_id), "name", "") ELSE ""

\* CANVAS_DIR / folder_name / base_file_name, or CANVAS_DIR / base_file_name
PathIn(folder_name, base_file_name) ==
    IF folder_name # "" THEN PathJoin(PathJoin("", folder_name), base_file_name)
    ELSE PathJoin("", base_file_name)

\* lines 942-947: file_id leaves the containedFiles of its old folder
LeaveFolder(md, old_folder_id, file_id) ==
    IF IsId(old_folder_id) /\ Has(md, old_folder_id)
       /\ "containedFiles" \in DOMAIN At(md, old_folder_id)
    THEN Put(md, old_folder_id,
             With(At(md, old_folder_id), "containedFiles",
                  SelectSeq(At(md, old_folder_id).containedFiles, LAMBDA f : f # file_id)))
    ELSE md

\* lines 949-954: file_id enters the containedFiles of the new folder
EnterFolder(md, folder_id, file_id) ==
    IF IsId(folder_id) /\ Has(md, folder_id)
    THEN Let(GetOr(At(md, folder_id), "containedFiles", <<>>), LAMBDA contained :
             Put(md, folder_id,
                 With(At(md, folder_id), "containedFiles",
                      IF \E j \in 1..Len(contained) : contained[j] = file_id
                      THEN contained ELSE Append(contained, file_id))))
    ELSE md

\* lines 938-956: parentFolder and both containedFiles lists are updated and
\* the document is saved
Reparent(w, md, file_id, folder_id, old_folder_id) ==
    save_metadata(w,
        EnterFolder(
            LeaveFolder(Put(md, file_id, With(At(md, file_id), "parentFolder", folder_id)),
                        old_folder_id, file_id),
            folder_id, file_id))

\* lines 925-936: the physical file is moved and fileName follows it
MovePhysical(w, md, file_id, new_folder_name, base_file_name, old_file_path, new_file_path) ==
    IF old_file_path \in DOMAIN w.fs.files /\ old_file_path # new_file_path
    THEN [w |-> [w EXCEPT !.fs = MoveFile(MkParents(@, new_file_path),
                                          old_file_path, new_file_path)],
          md |-> Put(md, file_id,
                     With(At(md, file_id), "fileName",
                          IF new_folder_name # ""
                          THEN new_folder_name \o "/" \o base_file_name
                          ELSE base_file_name))]
    ELSE [w |-> w, md |-> md]

\* lines 911-936: the move of the physical file of a node that has a fileName
MoveNodeFile(w, md, file_id, folder_id, file_name) ==
    IF file_name = "" THEN [w |-> w, md |-> md]
    ELSE Let(Split(file_name, "/"), LAMBDA parts :
         Let(FolderName(md, GetOr(At(md, file_id), "parentFolder", Null)),
             LAMBDA old_folder_name :
         Let(FolderName(md, folder_id), LAMBDA new_folder_name :
             MovePhysical(w, md, file_id, new_folder_name, parts[Len(parts)],
                          PathIn(old_folder_name, parts[Len(parts)]),
                          PathIn(new_folder_name, parts[Len(parts)])))))

\* move_file_to_folder: folder_id is Null when the request names no folder
move_file_to_folder(w, file_id, folder_id) ==
    Let(load_metadata(w), LAMBDA md :
        IF ~Has(md, file_id) THEN [status |-> "not_found", w |-> w]
        ELSE Let(MoveNodeFile(w, md, file_id, folder_id,
                              GetOr(At(md, file_id), "fileName", "")),
                 LAMBDA moved :
                     [status |-> "ok",
                      w |-> Reparent(moved.w, moved.md, file_id, folder_id,
                                     GetOr(At(moved.md, file_id), "parentFolder", Null))]))

\* PUT /metadata
update_metadata(w, doc) == save_metadata(w, doc)

\* get_all_files (GET /files): the index is refreshed from the loaded
\* document; the document itself is not written
get_all_files(w) ==
    [refresh_files_from_metadata(w, load_metadata(w)) EXCEPT !.md = w.md]

(***************************************************************************)
(* The node-generation agent (agents/node_generation_agent.py).  Its       *)
(* METADATA_PATH is the path of the metadata document in the deployment    *)
(* the module is written for.                                              *)
(***************************************************************************)
\* lines 84-93: the record written for one node, a mapping of the keys it has
AgentNodeData(node) ==
    (IF "fileName" \in DOMAIN node THEN [fileName |-> node.fileName] ELSE EmptyDict)
    @@ [id |-> node.id, type |-> GetOr(node, "type", "file"),
        description |-> GetOr(node, "description", ""),
        x |-> GetOr(node, "x", 100), y |-> GetOr(node, "y", 100)]

\* lines 78-96: the document once the nodes nodes[i..] are added
RECURSIVE AddNodes(_, _, _)
AddNodes(md, nodes, i) ==
    IF i > Len(nodes) THEN md
    ELSE AddNodes(IF GetOr(nodes[i], "id", "") # ""
                  THEN Put(md, nodes[i].id, AgentNodeData(nodes[i])) ELSE md,
                  nodes, i + 1)

\* add_nodes_to_metadata: the document is loaded, the nodes are put in and
\* it is written back by the module's own save_metadata (lines 31-40); the
\* FileDatabase is not called
add_nodes_to_metadata(w, nodes) ==
    IF w.fs.metadata_writable
    THEN [status |-> "ok", w |-> [w EXCEPT !.md = AddNodes(w.md, nodes, 1)]]
    ELSE [status |-> "error", w |-> w]

(***************************************************************************)
(* Edge handlers (main.py); es is the list stored in EDGES_FILE            *)
(***************************************************************************)
Edge(from, to, type) == [from |-> from, to |-> to, type |-> type]

\* POST /edges with an "edges" key: the stored list is replaced
replace_edges(es, new_edges) == [status |-> "ok", edges |-> new_edges]

\* POST /edges with one edge, were the stored edges not searched (lines 1041-1045)
create_edge_NoDuplicateTest(es, edge_data) ==
    [status |-> "ok", edges |-> Append(es, edge_data)]

\* POST /edges with one edge
create_edge(es, edge_data) ==
    IF \E i \in 1..Len(es) : es[i].from = edge_data.from /\ es[i].to = edge_data.to
    THEN [status |-> "duplicate", edges |-> es]
    ELSE [status |-> "ok", edges |-> Append(es, edge_data)]

\* DELETE /edges, were the type of the stored edge not compared (line 1078)
delete_edge_AnyType(es, from_node, to_node, edge_type) ==
    LET kept == SelectSeq(es, LAMBDA e : ~(e.from = from_node /\ e.to = to_node))
    IN  IF Len(kept) = Len(es) THEN [status |-> "not_found", edges |-> es]
        ELSE [status |-> "ok", edges |-> kept]

\* DELETE /edges
delete_edge(es, from_node, to_node, edge_type) ==
    LET kept == SelectSeq(es, LAMBDA e : ~(e.from = from_node /\ e.to = to_node
                                           /\ e.type = edge_type))
    IN  IF Len(kept) = Len(es) THEN [status |-> "not_found", edges |-> es]
        ELSE [status |-> "ok", edges |-> kept]

\* what json.loads gives for the text the language model answers (lines
\* 183-207): "list" with the entries v, "not_list", or "bad_json"; an entry
\* is a record of the keys it has (an entry that is no mapping has none)
EdgesResponse(kind, v) == [kind |-> kind, v |-> v]

\* lines 140-154: the generated nodes that are nodes of the metadata document
NodesForAnalysis(md, generated_nodes) ==
    SelectSeq(generated_nodes, LAMBDA node : "id" \in DOMAIN node /\ Has(md, node.id))

\* lines 217-230: the stored edges once the entries new_edges[i..] are added;
\* an entry whose (from, to) is stored already is left out
RECURSIVE MergeEdges(_, _, _)
MergeEdges(es, new_edges, i) ==
    IF i > Len(new_edges) THEN es
    ELSE MergeEdges(IF /\ {"from", "to"} \subseteq DOMAIN new_edges[i]
                       /\ ~\E n \in 1..Len(es) : /\ es[n].from = new_edges[i].from
                                                  /\ es[n].to = new_edges[i].to
                    THEN Append(es, [from |-> new_edges[i].from,
                                     to |-> new_edges[i].to,
                                     type |-> GetOr(new_edges[i], "type", "depends_on"),
                                     description |-> GetOr(new_edges[i], "description", "")])
                    ELSE es,
                    new_edges, i + 1)

\* generate_edges_for_nodes: status "skipped" when it returns before the
\* edges document is written
generate_edges_for_nodes(w, es, generated_nodes, response) ==
    IF Len(generated_nodes) < 2 THEN [status |-> "skipped", edges |-> es]
    ELSE IF Len(NodesForAnalysis(load_metadata(w), generated_nodes)) < 2
    THEN [status |-> "skipped", edges |-> es]
    ELSE IF response.kind # "list" THEN [status |-> "skipped", edges |-> es]
    ELSE [status |-> "ok", edges |-> MergeEdges(es, response.v, 1)]

(***************************************************************************)
(* The empty workspace                                                     *)
(***************************************************************************)
NoOp == [op |-> "none", id |-> "", arg |-> "", ok |-> TRUE, status |-> "ok"]

\* METADATA_FILE: kind is what a read of the file finds ("absent": no file,
\* "unreadable": read_text raises OSError, "bad_utf8": bytes that are no
\* UTF-8, "bad_json": text that is no JSON, "json": the document), writable
\* whether write_text succeeds
MetadataFile(kind, writable) == [kind |-> kind, writable |-> writable]
HealthyFile == MetadataFile("json", TRUE)
ReadOnlyFile == MetadataFile("json", FALSE)

\* no direct load_metadata call was made
NotLoaded == [raised |-> "", value |-> <<>>, called |-> FALSE]

\* a load-modify-save cycle that has not begun
NotBegun == [pos |-> "idle", op |-> "", node |-> "", text |-> "", nodes |-> <<>>,
             md |-> <<>>]

\* no cycle is under way, in the backend or in the process that runs the
\* agent's tool
NoneInFlight == [backend |-> NotBegun, agent |-> NotBegun]

\* a write_output call that has not begun
NotWriting == [pos |-> "idle", entry |-> <<>>, messages |-> <<>>]

\* RUN_APP_PROCESS is None, no run_app.sh was started
NoLauncher == [process |-> 0, started |-> 0, alive |-> {}, streaming |-> {},
               exited |-> {}]

\* no node is run, OUTPUT_FILE holds no message, no launcher was started
NothingStarted ==
    /\ runs = {}
    /\ output = <<>>
    /\ written = <<>>
    /\ writers = [thread |-> NotWriting, handler |-> NotWriting]
    /\ launcher = NoLauncher

EmptyStore ==
    /\ metadata_file = HealthyFile
    /\ loaded = NotLoaded
    /\ in_flight = NoneInFlight
    /\ NothingStarted
    /\ metadata = <<>>
    /\ files_db = NoFn
    /\ disk = NoFn
    /\ dirs = {}
    /\ edges = <<>>
    /\ last = NoOp
    /\ steps = 0

(***************************************************************************)
(* Plan specification: the planner's raw plan and the project spec are     *)
(* drawn from the bounded sets, then sanitized.                            *)
(***************************************************************************)
InitPlan ==
    /\ \/ /\ \E fs \in RawFileLists, es \in RawEdgeLists :
                plan_data = [files |-> List(fs), edges |-> List(es)]
          /\ project_spec = DefaultSpec
       \/ /\ plan_data \in UnusablePlans
          /\ project_spec \in ProjectSpecs
    /\ plan_result = NotRun
    /\ plan_again = NotRun
    /\ workspace = NoWorkspace
    /\ EmptyStore

\* a direct call of sanitize_plan
SanitizePlan ==
    /\ plan_result = NotRun
    /\ plan_result' = sanitize_plan(plan_data, project_spec)
    /\ UNCHANGED <<plan_data, project_spec, plan_again, workspace, storeVars, fileVars,
                   last, steps>>

\* a second call of sanitize_plan on the same raw plan and project spec
SanitizePlanAgain ==
    /\ plan_result # NotRun
    /\ plan_again = NotRun
    /\ plan_again' = sanitize_plan_after(plan_result, plan_data, project_spec)
    /\ UNCHANGED <<plan_data, project_spec, plan_result, workspace, storeVars, fileVars,
                   last, steps>>

\* prepare_project_workspace: plans through sanitize_plan, then writes the
\* project's metadata payload and node files
PrepareProjectWorkspace ==
    /\ plan_result = NotRun
    /\ \E plan \in {sanitize_plan(plan_data, project_spec)} :
           /\ plan_result' = plan
           /\ workspace' = prepare_project_workspace(plan)
    /\ UNCHANGED <<plan_data, project_spec, plan_again, storeVars, fileVars, last, steps>>

NextPlan == SanitizePlan \/ SanitizePlanAgain \/ PrepareProjectWorkspace

SpecPlan == InitPlan /\ [][NextPlan]_vars


(***************************************************************************)
(* Workspace specification: the request handlers, one request at a time,   *)
(* starting from an empty canvas.                                          *)
(***************************************************************************)
MaxNodes == 3
MaxEdges == 2
MaxSteps == 6

FilePaths == {"a.py", "nodes/a.py"}
Contents == {"x", "y"}
FolderNames == {"F"}
NewNames == {"G"}
GhostId == "9"
EdgeEnds == {"1", "2"}
EdgeTypes == {"depends_on"}

FileIds(md) == {k \in Keys(md) : GetOr(At(md, k), "type", "") = "file"}
FolderIds(md) == {k \in Keys(md) : GetOr(At(md, k), "type", "") = "folder"}

FolderUpdates(md) ==
    {[name |-> n] : n \in NewNames}
    \cup {[containedFiles |-> <<>>]}
    \cup {[containedFiles |-> <<k>>] : k \in FileIds(md)}

W == [md |-> metadata, db |-> files_db,
      fs |-> [files |-> disk, dirs |-> dirs, metadata_writable |-> metadata_file.writable]]

SetWorld(w) ==
    /\ metadata' = w.md
    /\ files_db' = w.db
    /\ disk' = w.fs.files
    /\ dirs' = w.fs.dirs

Report(op, id, arg, status) ==
    [op |-> op, id |-> id, arg |-> arg, ok |-> status = "ok", status |-> status]

\* one more request is taken
Request ==
    /\ steps < MaxSteps
    /\ steps' = steps + 1

Init ==
    /\ plan_data = EmptyDict
    /\ project_spec = EmptyDict
    /\ plan_result = NotRun
    /\ plan_again = NotRun
    /\ workspace = NoWorkspace
    /\ EmptyStore

\* POST /files
CreateFile(filePath, content) ==
    /\ Request
    /\ Len(metadata) < MaxNodes
    /\ \E res \in {create_file(W, filePath, content, "d")} :
           /\ SetWorld(res.w)
           /\ last' = Report("create_file", res.id, filePath, res.status)
    /\ UNCHANGED <<planVars, fileVars, edges>>

\* DELETE /files/{file_id}
DeleteFile(file_id) ==
    /\ Request
    /\ \E res \in {delete_file(W, file_id)} :
           /\ SetWorld(res.w)
           /\ last' = Report("delete_file", file_id, "", res.status)
    /\ UNCHANGED <<planVars, fileVars, edges>>

\* PUT /files/{file_id}/content
UpdateFileContent(file_id, content) ==
    /\ Request
    /\ \E res \in {update_file_content(W, file_id, content)} :
           /\ SetWorld(res.w)
           /\ last' = Report("update_file_content", file_id, content, res.status)
    /\ UNCHANGED <<planVars, fileVars, edges>>

\* PUT /files/{file_id}/position
UpdateFilePosition(file_id, x, y) ==
    /\ Request
    /\ \E res \in {update_file_position(W, file_id, x, y)} :
           /\ SetWorld(res.w)
           /\ last' = Report("update_file_position", file_id, "", res.status)
    /\ UNCHANGED <<planVars, fileVars, edges>>

\* PUT /files/{file_id}/description
UpdateFileDescription(file_id, description) ==
    /\ Request
    /\ \E res \in {update_file_description(W, file_id, description)} :
           /\ SetWorld(res.w)
           /\ last' = Report("update_file_description", file_id, description, res.status)
    /\ UNCHANGED <<planVars, fileVars, edges>>

\* POST /folders
CreateFolder(name, parentFolder) ==
    /\ Request
    /\ Len(metadata) < MaxNodes
    /\ \E res \in {create_folder(W, name, parentFolder)} :
           /\ SetWorld(res.w)
           /\ last' = Report("create_folder", res.id, name, res.status)
    /\ UNCHANGED <<planVars, fileVars, edges>>

\* PUT /folders/{folder_id}
UpdateFolder(folder_id, folder_update) ==
    /\ Request
    /\ \E res \in {update_folder(W, folder_id, folder_update)} :
           /\ SetWorld(res.w)
           /\ last' = Report("update_folder", folder_id, "", res.status)
    /\ UNCHANGED <<planVars, fileVars, edges>>

\* DELETE /folders/{folder_id}
DeleteFolder(folder_id) ==
    /\ Request
    /\ \E res \in {delete_folder(W, folder_id)} :
           /\ SetWorld(res.w)
           /\ last' = Report("delete_folder", folder_id, "", res.status)
    /\ UNCHANGED <<planVars, fileVars, edges>>

\* PUT /files/{file_id}/folder
MoveFileToFolder(file_id, folder_id) ==
    /\ Request
    /\ \E res \in {move_file_to_folder(W, file_id, folder_id)} :
           /\ SetWorld(res.w)
           /\ last' = Report("move_file_to_folder", file_id, folder_id, res.status)
    /\ UNCHANGED <<planVars, fileVars, edges>>

\* POST /edges with one edge
CreateEdge(edge_data) ==
    /\ Request
    /\ Len(edges) < MaxEdges
    /\ \E res \in {create_edge(edges, edge_data)} :
           /\ edges' = res.edges
           /\ last' = Report("create_edge", edge_data.from, edge_data.to, res.status)
    /\ UNCHANGED <<planVars, fileVars, metadata, files_db, disk, dirs>>

\* DELETE /edges
DeleteEdge(from_node, to_node, edge_type) ==
    /\ Request
    /\ \E res \in {delete_edge(edges, from_node, to_node, edge_type)} :
           /\ edges' = res.edges
           /\ last' = Report("delete_edge", from_node, to_node, res.status)
    /\ UNCHANGED <<planVars, fileVars, metadata, files_db, disk, dirs>>

\* POST /edges with an "edges" key
ReplaceEdges(new_edges) ==
    /\ Request
    /\ \E res \in {replace_edges(edges, new_edges)} :
           /\ edges' = res.edges
           /\ last' = Report("replace_edges", "", "", res.status)
    /\ UNCHANGED <<planVars, fileVars, metadata, files_db, disk, dirs>>

\* generate_edges_for_nodes, as chat_nodes calls it for the nodes generated
GenerateEdgesForNodes(generated_nodes, response) ==
    /\ Request
    /\ Len(edges) < MaxEdges
    /\ \E res \in {generate_edges_for_nodes(W, edges, generated_nodes, response)} :
           /\ edges' = res.edges
           /\ last' = Report("generate_edges_for_nodes", "", "", res.status)
    /\ UNCHANGED <<planVars, fileVars, metadata, files_db, disk, dirs>>

\* GET /files
GetAllFiles ==
    /\ Request
    /\ SetWorld(get_all_files(W))
    /\ last' = Report("get_all_files", "", "", "ok")
    /\ UNCHANGED <<planVars, fileVars, edges>>

\* PUT /metadata: the handler answers 200 whatever save_metadata caught
UpdateMetadata(doc) ==
    /\ Request
    /\ SetWorld(update_metadata(W, doc))
    /\ last' = Report("update_metadata", "", "", "ok")
    /\ UNCHANGED <<planVars, fileVars, edges>>

\* the agent's tool call add_nodes_to_metadata
AddNodesToMetadata(nodes) ==
    /\ Request
    /\ \E res \in {add_nodes_to_metadata(W, nodes)} :
           /\ SetWorld(res.w)
           /\ last' = Report("add_nodes_to_metadata", "", "", res.status)
    /\ UNCHANGED <<planVars, fileVars, edges>>

NodeIds == Keys(metadata) \cup {GhostId}

\* inputs of the update handlers
NewContents == {"z"}
Positions == {200}
Descriptions == {"e"}

Next ==
    \/ \E filePath \in FilePaths, content \in Contents : CreateFile(filePath, content)
    \/ \E file_id \in NodeIds : DeleteFile(file_id)
    \/ \E name \in FolderNames, parentFolder \in {Null} \cup FolderIds(metadata) :
           CreateFolder(name, parentFolder)
    \/ \E folder_id \in FolderIds(metadata) \cup {GhostId},
          folder_update \in FolderUpdates(metadata) :
           UpdateFolder(folder_id, folder_update)
    \/ \E folder_id \in FolderIds(metadata) \cup {GhostId} : DeleteFolder(folder_id)
    \/ \E file_id \in FileIds(metadata) \cup {GhostId},
          folder_id \in {Null} \cup FolderIds(metadata) :
           MoveFileToFolder(file_id, folder_id)
    \/ \E from \in EdgeEnds, to \in EdgeEnds, type \in EdgeTypes :
           CreateEdge(Edge(from, to, type))
    \/ \E from \in EdgeEnds, to \in EdgeEnds, type \in EdgeTypes :
           DeleteEdge(from, to, type)
    \/ \E file_id \in NodeIds, content \in NewContents :
           UpdateFileContent(file_id, content)
    \/ \E file_id \in NodeIds, pos \in Positions :
           UpdateFilePosition(file_id, pos, pos)
    \/ \E file_id \in NodeIds, description \in Descriptions :
           UpdateFileDescription(file_id, description)

Spec == Init /\ [][Next]_vars


(***************************************************************************)
(* Round-trip specification: the backend starts on a metadata document     *)
(* found on disk (FileDatabase.__init__ refreshes the index from it), then *)
(* the document is loaded and saved back.                                  *)
(***************************************************************************)
MaxDocNodes == 2

DocKeys == {"1", "2", "3"}

DocRecords(k) ==
    LET file == [id |-> k, type |-> "file", description |-> "d", x |-> 100, y |-> 100]
    IN  { file,
          With(file, "fileName", "a.py"),
          With(file, "fileName", "nodes/a.py"),
          With(file, "fileName", ""),
          [id |-> k, type |-> "folder", name |-> "F", x |-> 100, y |-> 100,
           containedFiles |-> <<>>, parentFolder |-> Null] }

Documents ==
    UNION {{md \in [1..n -> {[k |-> k, r |-> r] : k \in DocKeys, r \in UNION {DocRecords(j) : j \in DocKeys}}] :
               /\ \A i \in 1..n : md[i].r.id = md[i].k
               /\ \A i, j \in 1..n : i # j => md[i].k # md[j].k} : n \in 0..MaxDocNodes}

\* the backend after its start on a document found on disk, with
\* METADATA_FILE in the state file
Started(file) ==
    /\ metadata_file = file
    /\ loaded = NotLoaded
    /\ in_flight = NoneInFlight
    /\ NothingStarted
    /\ plan_data = EmptyDict
    /\ project_spec = EmptyDict
    /\ plan_result = NotRun
    /\ plan_again = NotRun
    /\ workspace = NoWorkspace
    /\ \E doc \in Documents :
          \E started \in {refresh_files_from_metadata(
                               [md |-> doc, db |-> NoFn, fs |-> [files |-> NoFn, dirs |-> {}]],
                               load_metadata([md |-> doc]))} :
              /\ metadata = doc
              /\ files_db = started.db
              /\ disk = started.fs.files
              /\ dirs = started.fs.dirs
    /\ edges = <<>>
    /\ last = NoOp
    /\ steps = 0

InitRoundTrip == Started(HealthyFile)

\* save_metadata(load_metadata())
RoundTrip ==
    /\ Request
    /\ SetWorld(save_metadata(W, load_metadata(W)))
    /\ last' = Report("round_trip", "", "", "ok")
    /\ UNCHANGED <<planVars, fileVars, edges>>

NextRoundTrip == RoundTrip

SpecRoundTrip == InitRoundTrip /\ [][NextRoundTrip]_vars


(***************************************************************************)
(* Load specification: load_metadata is called on METADATA_FILE in each    *)
(* state a read can find it in.                                            *)
(***************************************************************************)
MetadataFileKinds == {"absent", "unreadable", "bad_utf8", "bad_json", "json"}

\* the outcome of a load_metadata call
Loaded(raised, value) == [raised |-> raised, value |-> value, called |-> TRUE]

\* load_metadata on the file as it is found; doc is the document a file of
\* kind "json" holds.  read_text raises OSError on a file that cannot be read
\* and UnicodeDecodeError on bytes that are no UTF-8, json.loads raises
\* JSONDecodeError; the except clause names JSONDecodeError and IOError
load_metadata_file(file, doc) ==
    IF file.kind = "absent" THEN Loaded("", <<>>)
    ELSE IF file.kind = "unreadable" THEN Loaded("", <<>>)
    ELSE IF file.kind = "bad_utf8" THEN Loaded("UnicodeDecodeError", <<>>)
    ELSE IF file.kind = "bad_json" THEN Loaded("", <<>>)
    ELSE Loaded("", doc)

InitLoad ==
    /\ plan_data = EmptyDict
    /\ project_spec = EmptyDict
    /\ plan_result = NotRun
    /\ plan_again = NotRun
    /\ workspace = NoWorkspace
    /\ \E kind \in MetadataFileKinds :
          /\ metadata_file = MetadataFile(kind, TRUE)
          /\ metadata \in IF kind = "json" THEN Documents ELSE {<<>>}
    /\ files_db = NoFn
    /\ disk = NoFn
    /\ dirs = {}
    /\ edges = <<>>
    /\ loaded = NotLoaded
    /\ in_flight = NoneInFlight
    /\ NothingStarted
    /\ last = NoOp
    /\ steps = 0

\* a direct call of load_metadata
LoadMetadata ==
    /\ ~loaded.called
    /\ loaded' = load_metadata_file(metadata_file, metadata)
    /\ UNCHANGED <<planVars, storeVars, metadata_file, runVars, in_flight, last, steps>>

NextLoad == LoadMetadata

SpecLoad == InitLoad /\ [][NextLoad]_vars


(***************************************************************************)
(* Write-failure specification: the backend starts on a document whose     *)
(* file can be read but not written (write_text raises IOError), then      *)
(* serves mutating requests.                                               *)
(***************************************************************************)
MaxFaultSteps == 2

InitFault == Started(ReadOnlyFile)

NextFault ==
    \/ \E filePath \in FilePaths, content \in Contents :
           steps < MaxFaultSteps /\ Len(metadata) < MaxNodes /\ CreateFile(filePath, content)
    \/ \E file_id \in DocKeys, pos \in Positions :
           steps < MaxFaultSteps /\ UpdateFilePosition(file_id, pos, pos)
    \/ \E file_id \in DocKeys, description \in Descriptions :
           steps < MaxFaultSteps /\ UpdateFileDescription(file_id, description)
    \/ \E name \in FolderNames :
           steps < MaxFaultSteps /\ Len(metadata) < MaxNodes /\ CreateFolder(name, Null)
    \/ \E folder_id \in DocKeys, folder_update \in FolderUpdates(metadata) :
           steps < MaxFaultSteps /\ UpdateFolder(folder_id, folder_update)
    \/ \E file_id \in DocKeys, folder_id \in {Null} \cup FolderIds(metadata) :
           steps < MaxFaultSteps /\ MoveFileToFolder(file_id, folder_id)

SpecFault == InitFault /\ [][NextFault]_vars


(***************************************************************************)
(* File specification: the backend starts on a metadata document found on  *)
(* disk, then serves requests of the file handlers.                        *)
(***************************************************************************)
MaxFileSteps == 2

NextFiles ==
    \/ \E filePath \in FilePaths, content \in Contents :
           steps < MaxFileSteps /\ Len(metadata) < MaxNodes /\ CreateFile(filePath, content)
    \/ \E file_id \in DocKeys :
           steps < MaxFileSteps /\ DeleteFile(file_id)
    \/ \E file_id \in DocKeys, content \in NewContents :
           steps < MaxFileSteps /\ UpdateFileContent(file_id, content)
    \/ \E file_id \in DocKeys, pos \in Positions :
           steps < MaxFileSteps /\ UpdateFilePosition(file_id, pos, pos)
    \/ \E file_id \in DocKeys, description \in Descriptions :
           steps < MaxFileSteps /\ UpdateFileDescription(file_id, description)

SpecFiles == InitRoundTrip /\ [][NextFiles]_vars


(***************************************************************************)
(* Edge specification: the requests that write the edges document, on a    *)
(* backend started on a metadata document.                                 *)
(***************************************************************************)
MaxEdgeSteps == 3

\* the lists a bulk POST /edges carries
BulkEdgeLists ==
    { <<>>,
      <<Edge("2", "1", "depends_on")>>,
      <<Edge("1", "2", "depends_on"), Edge("1", "2", "depends_on")>> }

\* the nodes chat_nodes hands to generate_edges_for_nodes
GeneratedNodeLists ==
    { <<[id |-> "1"]>>, <<[id |-> "1"], [id |-> "2"]>>, <<[id |-> "1"], [id |-> GhostId]>> }

\* the answers of the language model
EdgesResponses ==
    { EdgesResponse("bad_json", <<>>),
      EdgesResponse("not_list", <<>>),
      EdgesResponse("list", <<[from |-> "1", to |-> "2"],
                              [from |-> "1", to |-> "2", type |-> "calls"],
                              [from |-> "2"]>>),
      EdgesResponse("list", <<[from |-> "2", to |-> "2", type |-> "depends_on"]>>) }

\* the types of the edges posted and deleted
EdgeKinds == {"depends_on", "calls"}

NextEdges ==
    \/ \E from \in EdgeEnds, to \in EdgeEnds, type \in EdgeKinds :
           steps < MaxEdgeSteps /\ CreateEdge(Edge(from, to, type))
    \/ \E new_edges \in BulkEdgeLists :
           steps < MaxEdgeSteps /\ ReplaceEdges(new_edges)
    \/ \E generated_nodes \in GeneratedNodeLists, response \in EdgesResponses :
           steps < MaxEdgeSteps /\ GenerateEdgesForNodes(generated_nodes, response)
    \/ \E from \in EdgeEnds, to \in EdgeEnds, type \in EdgeKinds :
           steps < MaxEdgeSteps /\ DeleteEdge(from, to, type)

SpecEdges == InitRoundTrip /\ [][NextEdges]_vars

(***************************************************************************)
(* Deletion specification: edges are posted one by one or as a list, and   *)
(* deleted by (from, to, type).                                            *)
(***************************************************************************)
MaxDeleteSteps == 3

\* the lists a bulk POST /edges carries: edges that differ in one of from, to
\* and type, and an edge stored twice
PostedEdgeLists ==
    { <<Edge("1", "2", "calls"), Edge("1", "2", "depends_on"), Edge("2", "1", "calls")>>,
      <<Edge("2", "1", "calls"), Edge("1", "2", "calls"), Edge("1", "1", "calls"),
        Edge("1", "2", "calls")>> }

NextDelete ==
    \/ \E from \in EdgeEnds, to \in EdgeEnds, type \in EdgeKinds :
           steps < MaxDeleteSteps /\ CreateEdge(Edge(from, to, type))
    \/ \E new_edges \in PostedEdgeLists :
           steps < MaxDeleteSteps /\ ReplaceEdges(new_edges)
    \/ \E from \in EdgeEnds, to \in EdgeEnds, type \in EdgeKinds :
           steps < MaxDeleteSteps /\ DeleteEdge(from, to, type)

SpecDelete == Init /\ [][NextDelete]_vars


(***************************************************************************)
(* Agent specification: the agent's tool call next to requests that go     *)
(* through the FileDatabase, on a backend started on a metadata document.  *)
(***************************************************************************)
MaxAgentSteps == 2

\* the nodes the language model hands to add_nodes_to_metadata
AgentNodeLists ==
    { <<[id |-> "3", type |-> "file", description |-> "n", x |-> 200, y |-> 200,
         fileName |-> "a.py"]>>,
      <<[id |-> "1", description |-> "n"], [description |-> "n"]>> }

NextAgent ==
    \/ \E nodes \in AgentNodeLists :
           steps < MaxAgentSteps /\ AddNodesToMetadata(nodes)
    \/ \E file_id \in DocKeys, description \in Descriptions :
           steps < MaxAgentSteps /\ UpdateFileDescription(file_id, description)
    \/ steps < MaxAgentSteps /\ GetAllFiles

SpecAgent == InitRoundTrip /\ [][NextAgent]_vars

(***************************************************************************)
(* Move specification: files created at the root and inside a directory,   *)
(* folders, and moves of the files into and out of the folders, from an    *)
(* empty canvas.                                                           *)
(***************************************************************************)
MaxMoveSteps == 4

MovePaths == {"a.py", "x/a.py"}

NextMove ==
    \/ \E filePath \in MovePaths :
           steps < MaxMoveSteps /\ CreateFile(filePath, "x")
    \/ \E name \in FolderNames :
           steps < MaxMoveSteps /\ CreateFolder(name, Null)
    \/ \E file_id \in FileIds(metadata), folder_id \in {Null} \cup FolderIds(metadata) :
           steps < MaxMoveSteps /\ MoveFileToFolder(file_id, folder_id)

SpecMove == Init /\ [][NextMove]_vars

(***************************************************************************)
(* Folder specification: one folder, files moved into it, and its deletion, *)
(* from an empty canvas.                                                   *)
(***************************************************************************)
MaxFolderSteps == 6

FolderPaths == {"a.py", "b.py"}

NextFolder ==
    \/ \E filePath \in FolderPaths :
           steps < MaxFolderSteps /\ CreateFile(filePath, "x")
    \/ \E name \in FolderNames :
           steps < MaxFolderSteps /\ FolderIds(metadata) = {} /\ CreateFolder(name, Null)
    \/ \E file_id \in FileIds(metadata), folder_id \in FolderIds(metadata) :
           steps < MaxFolderSteps /\ MoveFileToFolder(file_id, folder_id)
    \/ \E folder_id \in FolderIds(metadata) :
           steps < MaxFolderSteps /\ DeleteFolder(folder_id)

SpecFolder == Init /\ [][NextFolder]_vars

(***************************************************************************)
(* Content specification: files are created, their content is rewritten,   *)
(* and the document is saved and the index refreshed in between, from an   *)
(* empty canvas.                                                           *)
(***************************************************************************)
MaxContentSteps == 4

\* the contents update_file_content is handed: text, nothing, and a blank
WrittenContents == {"z", "", " "}

NextContent ==
    \/ \E filePath \in FolderPaths :
           steps < MaxContentSteps /\ CreateFile(filePath, "x")
    \/ \E file_id \in FileIds(metadata), content \in WrittenContents :
           steps < MaxContentSteps /\ UpdateFileContent(file_id, content)
    \/ steps < MaxContentSteps /\ RoundTrip
    \/ steps < MaxContentSteps /\ GetAllFiles

SpecContent == Init /\ [][NextContent]_vars

(***************************************************************************)
(* Placeholder-failure specification: documents are put whose new File     *)
(* nodes have a path under a regular file, where no placeholder can be     *)
(* made, from an empty canvas.                                             *)
(***************************************************************************)
MaxPutSteps == 3

\* a File node a client adds to the document it puts
PutNode(id, fileName) ==
    [k |-> id, r |-> [id |-> id, type |-> "file", description |-> "d", x |-> 0, y |-> 0,
                      fileName |-> fileName]]

\* the nodes added: one with the path b.py, one with a path under the file a.py
PutTails ==
    { <<>>, <<PutNode("7", "b.py")>>, <<PutNode("8", "a.py/c.py")>>,
      <<PutNode("7", "b.py"), PutNode("8", "a.py/c.py")>> }

\* the documents a client puts: the stored nodes, as they are or moved to
\* x = 200, and after them added nodes under keys the dict does not hold yet
PutDocuments(md) ==
    {body \o tail : body \in {md, [i \in 1..Len(md) |-> [md[i] EXCEPT !.r.x = 200]]},
                    tail \in {t \in PutTails : \A i \in 1..Len(t) : ~Has(md, t[i].k)}}

NextPut ==
    \/ \E filePath \in FolderPaths :
           steps < MaxPutSteps /\ CreateFile(filePath, "x")
    \/ \E doc \in PutDocuments(metadata) :
           steps < MaxPutSteps /\ UpdateMetadata(doc)

SpecPut == Init /\ [][NextPut]_vars

(***************************************************************************)
(* Overlap specification: the document is shared by every process started  *)
(* on the canvas, and neither load_metadata nor save_metadata locks it.    *)
(* One cycle of a backend handler and one cycle of the agent's tool, run   *)
(* by another process, each read the document in one step and write it in  *)
(* a later one.                                                            *)
(***************************************************************************)
\* the cycle once the document is loaded
Loading(op, node, text, nodes) ==
    [pos |-> "loaded", op |-> op, node |-> node, text |-> text, nodes |-> nodes,
     md |-> load_metadata(W)]

\* the request was refused before anything was to be written
Refused == [NotBegun EXCEPT !.pos = "refused"]

\* PUT /files/{file_id}/description, up to the load of update_node_metadata
BeginUpdateFileDescription(file_id, description) ==
    /\ in_flight.backend.pos = "idle"
    /\ in_flight' = [in_flight EXCEPT !.backend =
                         IF file_id \in DOMAIN files_db
                         THEN Loading("update_node_metadata", file_id, description, <<>>)
                         ELSE Refused]
    /\ UNCHANGED <<planVars, storeVars, metadata_file, runVars, loaded, last, steps>>

\* PUT /folders/{folder_id} with a new name, up to the test of the loaded document
BeginUpdateFolder(folder_id, name) ==
    /\ in_flight.backend.pos = "idle"
    /\ in_flight' = [in_flight EXCEPT !.backend =
                         IF IsFolder(load_metadata(W), folder_id)
                         THEN Loading("update_folder", folder_id, name, <<>>)
                         ELSE Refused]
    /\ UNCHANGED <<planVars, storeVars, metadata_file, runVars, loaded, last, steps>>

\* the document the backend's cycle saves: the one it loaded, modified
Modified(cycle) ==
    IF cycle.op = "update_node_metadata"
    THEN NodeUpdated(cycle.md, cycle.node, "file", cycle.text,
                     files_db[cycle.node].x, files_db[cycle.node].y)
    ELSE FolderUpdated(cycle.md, cycle.node, [name |-> cycle.text])

\* the save_metadata call that ends the backend's cycle
FinishBackend ==
    /\ in_flight.backend.pos = "loaded"
    /\ SetWorld(save_metadata(W, Modified(in_flight.backend)))
    /\ in_flight' = [in_flight EXCEPT !.backend.pos = "done"]
    /\ UNCHANGED <<planVars, metadata_file, runVars, loaded, edges, last, steps>>

\* add_nodes_to_metadata up to its load of the document
BeginAddNodes(nodes) ==
    /\ in_flight.agent.pos = "idle"
    /\ in_flight' = [in_flight EXCEPT !.agent =
                         Loading("add_nodes_to_metadata", "", "", nodes)]
    /\ UNCHANGED <<planVars, storeVars, metadata_file, runVars, loaded, last, steps>>

\* the nodes are put into the loaded document and the module's own
\* save_metadata writes it
FinishAddNodes ==
    /\ in_flight.agent.pos = "loaded"
    /\ metadata' = IF metadata_file.writable
                   THEN AddNodes(in_flight.agent.md, in_flight.agent.nodes, 1)
                   ELSE metadata
    /\ in_flight' = [in_flight EXCEPT !.agent.pos = "done"]
    /\ UNCHANGED <<planVars, files_db, disk, dirs, edges, metadata_file, runVars, loaded,
                   last, steps>>

NextRace ==
    \/ \E file_id \in DocKeys, description \in Descriptions :
           BeginUpdateFileDescription(file_id, description)
    \/ \E folder_id \in DocKeys, name \in NewNames :
           BeginUpdateFolder(folder_id, name)
    \/ FinishBackend
    \/ \E nodes \in AgentNodeLists : BeginAddNodes(nodes)
    \/ FinishAddNodes

SpecRace == InitRoundTrip /\ [][NextRace]_vars


(***************************************************************************)
(* Properties of plan sanitization (SpecPlan)                              *)
(***************************************************************************)
Sanitized == plan_result.status = "ok"

\* the raw entries handed to sanitize_plan
RawFiles == IF Get(plan_data, "files").t = "list" THEN Get(plan_data, "files").v ELSE <<>>

\* the path string of raw entry i, "" when it has none
RawPathAt(i) ==
    LET entry == RawFiles[i]
        raw == IF entry.t = "dict" THEN RawFileName(entry.v) ELSE None
    IN  IF raw.t = "str" THEN raw.v ELSE ""

\* the raw entries the returned files come from
KeptOrigins == {plan_result.origins[k] : k \in 1..Len(plan_result.origins)} \ {0}

\* C1: the files returned by one sanitize_plan call have pairwise distinct
\* ids, also when the fallback plan is returned
C1_DistinctPlanIds ==
    Sanitized =>
        \A i, j \in 1..Len(plan_result.files) :
            i # j => plan_result.files[i].id # plan_result.files[j].id

\* C4 as stated: no returned file originates from a raw entry whose path
\* contains a "../" sequence
C4_DotDotEntriesDropped ==
    Sanitized => \A i \in KeptOrigins : ~Contains(RawPathAt(i), "../")

\* a relative path whose ".." segments climb above the directory it starts in
RECURSIVE Climbs(_, _)
Climbs(comps, depth) ==
    IF comps = <<>> THEN FALSE
    ELSE IF Head(comps) \in {"", "."} THEN Climbs(Tail(comps), depth)
    ELSE IF Head(comps) = ".." THEN depth = 0 \/ Climbs(Tail(comps), depth - 1)
    ELSE Climbs(Tail(comps), depth + 1)

Escapes(raw) ==
    LET path == Replace(Strip(raw), "\\", "/")
    IN  ~IsAbs(path) /\ Climbs(Split(path, "/"), 0)

HasDotDotSegment(path) == \E i \in 1..Len(Split(path, "/")) : Split(path, "/")[i] = ".."

\* C4 amended: a raw entry whose path climbs above the workspace root is
\* dropped, and no returned file path has a ".." segment; an entry whose
\* "../" stays inside the root is kept under its normalized path
C4_EscapingEntriesDropped ==
    Sanitized =>
        /\ \A i \in 1..Len(RawFiles) : Escapes(RawPathAt(i)) => i \notin KeptOrigins
        /\ \A k \in 1..Len(plan_result.files) :
               ~HasDotDotSegment(plan_result.files[k].file_name)

\* a sanitized plan that dropped a climbing entry and kept an entry whose
\* "../" stays inside the root
C4_Witness ==
    /\ Sanitized
    /\ ~plan_result.fallback
    /\ \E i \in 1..Len(RawFiles) : Escapes(RawPathAt(i)) /\ i \notin KeptOrigins
    /\ \E k \in 1..Len(plan_result.files) :
           /\ Contains(RawPathAt(plan_result.origins[k]), "../")
           /\ ~Contains(plan_result.files[k].file_name, "../")

\* C5: every file path of the returned plan, and every fileName
\* prepare_project_workspace writes, is relative: not absolute and not
\* starting with ".."
C5_PlanPathsRelative ==
    /\ Sanitized =>
           \A k \in 1..Len(plan_result.files) :
               /\ ~IsAbs(plan_result.files[k].file_name)
               /\ ~StartsWith(plan_result.files[k].file_name, "..")
    /\ \A id \in DOMAIN workspace.metadata_payload :
           /\ ~IsAbs(workspace.metadata_payload[id])
           /\ ~StartsWith(workspace.metadata_payload[id], "..")

(***************************************************************************)
(* Properties of the workspace (Spec)                                      *)
(***************************************************************************)
Did(op) == last.op = op /\ last.ok

Contained(md, F) ==
    LET cf == GetOr(At(md, F), "containedFiles", <<>>) IN {cf[i] : i \in 1..Len(cf)}

ParentOf(md, id) == GetOr(At(md, id), "parentFolder", Null)

\* C2: a direct create gives the new node an id no node of the workspace
\* uses, so it overwrites neither a metadata record nor an index entry
C2_CreateUsesFreshId ==
    [][(last'.op \in {"create_file", "create_folder"} /\ last'.ok)
           => (~Has(metadata, last'.id) /\ last'.id \notin DOMAIN files_db)]_vars

\* C3: no two File nodes of the metadata have the same fileName, and a move
\* leaves the content of the physical files of the other nodes as it was
C3_UniquePathsNoOverwrite ==
    [][/\ \A i, j \in FileIds(metadata') :
              i # j => GetOr(At(metadata', i), "fileName", i)
                       # GetOr(At(metadata', j), "fileName", j)
       /\ (last'.op = "move_file_to_folder" /\ last'.ok) =>
              \A n \in FileIds(metadata) \ {last'.id} :
                  LET q == PathJoin("", Clean(GetOr(At(metadata, n), "fileName", "")))
                  IN  (q \in DOMAIN disk /\ q \in DOMAIN disk') => disk'[q] = disk[q]]_vars

\* C6: a File node f has parentFolder F exactly when F is an existing
\* Folder node whose containedFiles lists f
C6_ParentChildConsistent ==
    \A f \in FileIds(metadata) :
        /\ IsId(ParentOf(metadata, f)) =>
               /\ IsFolder(metadata, ParentOf(metadata, f))
               /\ f \in Contained(metadata, ParentOf(metadata, f))
        /\ \A F \in FolderIds(metadata) :
               f \in Contained(metadata, F) => ParentOf(metadata, f) = F

\* C7: both endpoints of every stored edge are existing nodes, and a delete
\* removes every edge of the deleted node
C7_EdgesReferToNodes ==
    \A i \in 1..Len(edges) : Has(metadata, edges[i].from) /\ Has(metadata, edges[i].to)

\* the nodes a folder holds: those its containedFiles lists and those held
\* by the folders nested inside it
RECURSIVE Holds(_, _, _)
Holds(md, F, depth) ==
    IF depth = 0 \/ ~Has(md, F) THEN {}
    ELSE Contained(md, F)
         \cup UNION {{G} \cup Holds(md, G, depth - 1) :
                        G \in {g \in FolderIds(md) : ParentOf(md, g) = F}}

\* C8: after delete_folder(F), F and every node F held are gone from the
\* metadata and from the index
C8_FolderDeleteCascades ==
    [][(last'.op = "delete_folder" /\ last'.ok /\ Has(metadata, last'.id)) =>
           \A n \in {last'.id} \cup Holds(metadata, last'.id, MaxNodes) :
               ~Has(metadata', n) /\ n \notin DOMAIN files_db']_vars

\* C9: after delete_file(id) of a File node, the node is gone from metadata
\* and index and the file resolved for it is gone from the directory
C9_DeleteRemovesFile ==
    [][(last'.op = "delete_file" /\ last'.ok /\ last'.id \in FileIds(metadata)) =>
           /\ ~Has(metadata', last'.id)
           /\ last'.id \notin DOMAIN files_db'
           /\ resolve_file_path([files |-> disk, dirs |-> dirs],
                                GetOr(At(metadata, last'.id), "fileName",
                                      last'.id \o ".txt")).path \notin DOMAIN disk']_vars

(***************************************************************************)
(* Properties of the round trip (SpecRoundTrip)                            *)
(***************************************************************************)
\* C10 as stated: save_metadata(load_metadata()) leaves the document as it was
C10_RoundTripNoOp ==
    [][last'.op = "round_trip" => metadata' = metadata]_vars

(***************************************************************************)
(* Properties of the file handlers (SpecFiles, Spec)                       *)
(***************************************************************************)
\* record r2 differs from record r1 at most in the fields of the set fields
SameExcept(r1, r2, fields) ==
    /\ DOMAIN r1 = DOMAIN r2
    /\ \A f \in DOMAIN r1 \ fields : r1[f] = r2[f]

\* document md2 differs from document md1 at most in the fields of the set
\* fields of the record of id
OnlyFieldsOf(md1, md2, id, fields) ==
    /\ Keys(md2) = Keys(md1)
    /\ \A k \in Keys(md1) :
           IF k = id THEN SameExcept(At(md1, k), At(md2, k), fields)
           ELSE At(md2, k) = At(md1, k)

\* C11 as stated: update_file_position changes only x and y of the record of
\* its node and update_file_description only its description; every other
\* field of that record and every other record of the document stay as they were
C11_UpdatesKeepOtherFields ==
    [][/\ (last'.op = "update_file_position" /\ last'.ok)
              => OnlyFieldsOf(metadata, metadata', last'.id, {"x", "y"})
       /\ (last'.op = "update_file_description" /\ last'.ok)
              => OnlyFieldsOf(metadata, metadata', last'.id, {"description"})]_vars

\* the File nodes of the document whose path (fileName) is path
NodesAt(md, path) == {k \in FileIds(md) : GetOr(At(md, k), "fileName", "") = path}

FileOps == {"update_file_content", "update_file_position", "update_file_description",
            "delete_file"}

C14_LoadNeverRaises ==
    loaded.called
        => /\ loaded.raised = ""
           /\ loaded.value = IF metadata_file.kind = "json" THEN metadata ELSE <<>>

(***************************************************************************)
(* Properties of a failing metadata write (SpecFault)                      *)
(***************************************************************************)
\* the document holds the change the last request reported
ChangeWritten(md, report) ==
    /\ Has(md, report.id)
    /\ IF report.op = "create_file" THEN GetOr(At(md, report.id), "fileName", "") = report.arg
       ELSE IF report.op = "create_folder" THEN GetOr(At(md, report.id), "name", "") = report.arg
       ELSE IF report.op = "update_file_description"
       THEN GetOr(At(md, report.id), "description", "") = report.arg
       ELSE GetOr(At(md, report.id), "parentFolder", Null) = report.arg

\* C15 as stated: a failure of the metadata write is surfaced, so a mutating
\* request that reports success has its change in the durable document
C15_SuccessMeansWritten ==
    [][(/\ last'.op \in {"create_file", "create_folder", "update_file_description",
                         "move_file_to_folder"}
        /\ last'.ok)
           => ChangeWritten(metadata', last')]_vars

(***************************************************************************)
(* Properties of malformed plans, the fallback, edges and aliases          *)
(* (SpecPlan)                                                              *)
(***************************************************************************)
Returned == plan_result.status # "none"

\* raw entry i is a mapping whose path is a string, not empty once stripped,
\* that stays inside the root
WellFormed(i) ==
    /\ RawFiles[i].t = "dict"
    /\ Strip(RawPathAt(i)) # ""
    /\ ~Escapes(RawPathAt(i))

\* C16 as stated: whatever malformed entries the raw plan holds,
\* sanitize_plan does not raise and the plan it returns contains every
\* well-formed file entry of the input
C16_MalformedEntriesTolerated ==
    Returned =>
        /\ plan_result.status # "raise"
        /\ \A i \in 1..Len(RawFiles) : WellFormed(i) => i \in KeptOrigins

\* C17 as stated: sanitize_plan returns at least one file for every input;
\* when the plan's files are missing, not a list, empty or entirely invalid
\* it returns the fallback plan, which has at least one file
C17_AtLeastOneFile ==
    Returned =>
        /\ Len(plan_result.files) >= 1
        /\ (\A i \in 1..Len(RawFiles) : ~WellFormed(i)) => plan_result.fallback

PlanIds == {plan_result.files[k].id : k \in 1..Len(plan_result.files)}

RawEdges == IF Get(plan_data, "edges").t = "list" THEN Get(plan_data, "edges").v ELSE <<>>

\* the types the raw edges declare
DeclaredTypes ==
    {Get(RawEdges[k].v, "type") :
         k \in {n \in 1..Len(RawEdges) :
                    RawEdges[n].t = "dict" /\ Truthy(Get(RawEdges[n].v, "type"))}}

\* C18: every edge of the plan sanitize_plan returns joins two different
\* files of that plan (so a raw edge with an unresolved endpoint, or with both
\* endpoints on one file, is not in it), and its type is the raw edge's type,
\* depends_on when the raw edge has none
C18_EdgesJoinPlanFiles ==
    Returned =>
        \A n \in 1..Len(plan_result.edges) :
            /\ plan_result.edges[n].from \in PlanIds
            /\ plan_result.edges[n].to \in PlanIds
            /\ plan_result.edges[n].from # plan_result.edges[n].to
            /\ plan_result.edges[n].type \in DeclaredTypes \cup {Str("depends_on")}

\* a plan built from the raw files: of two raw edges the one to the unknown
\* "zz" is dropped and the other is kept with the type depends_on it did not
\* declare; or the only raw edge, whose two names resolve to one file, is
\* dropped, so that no returned edge has its type "calls"
C18_Witness ==
    /\ Sanitized
    /\ ~plan_result.fallback
    /\ \/ /\ Len(RawEdges) = 2
          /\ Len(plan_result.edges) = 1
          /\ plan_result.edges[1].from = "a_2"
          /\ plan_result.edges[1].to = "a"
          /\ plan_result.edges[1].type = Str("depends_on")
       \/ /\ DeclaredTypes = {Str("calls")}
          /\ "a_2" \in PlanIds
          /\ \A n \in 1..Len(plan_result.edges) :
                 plan_result.edges[n].type = Str("depends_on")

\* what the file pass of sanitize_plan leaves: the kept files, the raw entry
\* each comes from, and the alias index id_map
FilePass ==
    FileLoop(RawFiles, 1,
             [files |-> <<>>, origins |-> <<>>, id_map |-> NoFn, used_ids |-> NoFn,
              raised |-> FALSE],
             infer_default_extension(project_spec), project_spec)

\* the strings that identify file f, kept from the raw entry d: its explicit
\* id, raw path, canonical path, basename and final id, in lower case
IdentifyingStrings(d, f) ==
    {Lower(PyStr(v)) :
         v \in {u \in {Get(d, "id"), RawFileName(d), Str(f.file_name),
                       Str(Basename(f.file_name)), Str(f.id)} : Truthy(u)}}

\* C19 as stated: after the file pass every identifying string of every
\* surviving file resolves through the alias index to that file's final id
C19_AliasesResolveToOwnFile ==
    (Sanitized /\ ~plan_result.fallback) =>
        \A k \in 1..Len(FilePass.files) :
            \A name \in IdentifyingStrings(RawFiles[FilePass.origins[k]].v,
                                           FilePass.files[k]) :
                GetOr(FilePass.id_map, name, "") = FilePass.files[k].id

(***************************************************************************)
(* Properties of the edges document (SpecEdges)                            *)
(***************************************************************************)
\* C20 as stated: after any sequence of single adds, bulk replaces,
\* generate_edges_for_nodes calls and deletes, the edges document holds at
\* most one edge per ordered (from, to) pair
C20_OneEdgePerPair ==
    \A i, j \in 1..Len(edges) :
        (edges[i].from = edges[j].from /\ edges[i].to = edges[j].to) => i = j

\* C21 as stated: after any sequence of single adds,
\* generate_edges_for_nodes calls and deletes, no edge of the edges document
\* has from equal to to
C21_NoSelfLoops ==
    \A i \in 1..Len(edges) : edges[i].from # edges[i].to

\* edge e is stored in es with the same from, to and type
Stored(es, e) ==
    \E i \in 1..Len(es) : es[i].from = e.from /\ es[i].to = e.to /\ es[i].type = e.type

\* C22: a single add of an edge whose (from, to, type) is stored already is
\* rejected with an error and leaves the edges document unchanged; an add
\* that is accepted appends exactly that edge after the stored edges
C22_ExactDuplicateRejected ==
    [][\A from \in EdgeEnds, to \in EdgeEnds, type \in EdgeKinds :
          CreateEdge(Edge(from, to, type)) =>
              /\ Stored(edges, Edge(from, to, type)) => (~last'.ok /\ edges' = edges)
              /\ last'.ok => edges' = Append(edges, Edge(from, to, type))
              /\ ~last'.ok => edges' = edges]_vars

\* a single add was rejected as a duplicate of a stored edge
C22_Witness ==
    /\ last.op = "create_edge"
    /\ last.status = "duplicate"
    /\ \E type \in EdgeKinds : Stored(edges, Edge(last.id, last.arg, type))

CandidateId(k) ==
    slugify(PyStr(Or(Get(RawFiles[plan_result.origins[k]].v, "id"),
                     Str(SplitExt(Basename(plan_result.files[k].file_name))[1]))))

\* how many returned files up to the k-th have the k-th file's candidate id
RankOf(k) == Cardinality({j \in 1..k : CandidateId(j) = CandidateId(k)})

\* C24: in a plan built from the raw files every well-formed entry is kept,
\* also when its candidate id is taken: the first entry with candidate id c
\* gets the id c and the k-th (k >= 2) gets c_k, under its own path
C24_CollidingEntriesSuffixed ==
    (Sanitized /\ ~plan_result.fallback) =>
        /\ \A i \in 1..Len(RawFiles) : WellFormed(i) => i \in KeptOrigins
        /\ \A k \in 1..Len(plan_result.files) :
               plan_result.files[k].id =
                   IF RankOf(k) = 1 THEN CandidateId(k)
                   ELSE CandidateId(k) \o "_" \o ToString(RankOf(k))

\* two entries naming one path gave two files, with ids a and a_2
C24_Witness ==
    /\ Sanitized
    /\ ~plan_result.fallback
    /\ \E j, k \in 1..Len(plan_result.files) :
           /\ j < k
           /\ plan_result.files[j].file_name = plan_result.files[k].file_name
           /\ RawPathAt(plan_result.origins[j]) = RawPathAt(plan_result.origins[k])
           /\ plan_result.files[j].id = "a"
           /\ plan_result.files[k].id = "a_2"

(***************************************************************************)
(* Properties of folders, the index and moves (Spec)                       *)
(***************************************************************************)
\* the directory of Folder node F: workspace-root/<its name>
DirOf(md, F) == PathJoin("", GetOr(At(md, F), "name", ""))

\* every Folder node has its directory, and no two Folder nodes share one
FoldersHaveOwnDirs ==
    /\ \A F \in FolderIds(metadata) : DirOf(metadata, F) \in dirs
    /\ \A F, G \in FolderIds(metadata) : F # G => DirOf(metadata, F) # DirOf(metadata, G)

\* a delete_folder step leaves the directory of every other folder in place
DeleteKeepsOtherDirs ==
    (last'.op = "delete_folder" /\ last'.ok) =>
        \A G \in FolderIds(metadata') :
            DirOf(metadata, G) \in dirs => DirOf(metadata', G) \in dirs'

\* C25 as stated: after any sequence of create_folder, update_folder and
\* delete_folder every Folder node has an existing directory at
\* workspace-root/<its name>, distinct Folder nodes have distinct directories,
\* and deleting one folder never removes the directory of another folder
C25_FoldersMatchDirectories ==
    [](FoldersHaveOwnDirs) /\ [][DeleteKeepsOtherDirs]_vars

\* the path of File node id under the workspace root: its fileName without
\* leading "nodes/" prefixes
PathOf(md, id) == PathJoin("", Clean(GetOr(At(md, id), "fileName", "")))

\* every File node has its physical file, inside an existing directory
FilesPresent ==
    \A id \in FileIds(metadata) :
        /\ PathOf(metadata, id) \in DOMAIN disk
        /\ Parent(PathOf(metadata, id)) \in dirs \cup {""}

\* a file that appears during a request that writes no file content itself
\* is empty
CreatedEmpty ==
    (last'.op \in {"update_file_position", "update_file_description", "create_folder",
                   "update_folder", "delete_folder", "delete_file"})
        => \A p \in DOMAIN disk' \ DOMAIN disk : disk'[p] = ""

\* C26 as stated: once save_metadata or refresh_files_from_metadata has
\* completed, every File node of the metadata has a physical file at
\* workspace-root/<its fileName> with its parent directories, and a file
\* that had to be created is empty
C26_FileNodesHaveFiles ==
    [](FilesPresent) /\ [][CreatedEmpty]_vars

\* C27 as stated: every operation that writes the metadata document
\* refreshes the index before it completes, so the ids of the index are the
\* ids of the File nodes of the document
C27_IndexMatchesDocument ==
    DOMAIN files_db = FileIds(metadata)

\* the edges of the returned plan that lead from the id a to the id b
EdgesBetween(a, b) ==
    {n \in 1..Len(plan_result.edges) :
         plan_result.edges[n].from = a /\ plan_result.edges[n].to = b}

\* every returned edge is a depends_on edge between two different ids of the plan
OnlyDependsOn ==
    \A n \in 1..Len(plan_result.edges) :
        /\ plan_result.edges[n].type = Str("depends_on")
        /\ plan_result.edges[n].from \in PlanIds
        /\ plan_result.edges[n].to \in PlanIds
        /\ plan_result.edges[n].from # plan_result.edges[n].to

\* C29 as stated: when no raw edge survives, a plan of at least two files is
\* returned with exactly one depends_on edge for every ordered pair of
\* different ids, n*(n-1) edges for n distinct ids, and no other edge; a plan
\* of fewer than two files is returned without edges
C29_DefaultEdgesFullyConnected ==
    (Sanitized /\ plan_result.defaulted) =>
        IF Len(plan_result.files) < 2
        THEN plan_result.edges = <<>>
        ELSE /\ \A a \in PlanIds : \A b \in PlanIds \ {a} :
                    Cardinality(EdgesBetween(a, b)) = 1
             /\ OnlyDependsOn
             /\ Len(plan_result.edges) = Cardinality(PlanIds) * (Cardinality(PlanIds) - 1)

\* the fileName a node has after a move into the folder named name ("" for a
\* move out of any folder): <name>/<basename>, or the bare basename
NameAfterMove(md, file_id, name) ==
    IF name # "" THEN name \o "/" \o Basename(GetOr(At(md, file_id), "fileName", ""))
    ELSE Basename(GetOr(At(md, file_id), "fileName", ""))

\* what a successful move of file_id to the folder named name leaves: the
\* stored fileName, the physical file at it, and nothing at the place the
\* file had before when that is another place
MovedTo(file_id, name) ==
    /\ GetOr(At(metadata', file_id), "fileName", "") = NameAfterMove(metadata, file_id, name)
    /\ PathJoin("", NameAfterMove(metadata, file_id, name)) \in DOMAIN disk'
    /\ PathOf(metadata, file_id) # PathJoin("", NameAfterMove(metadata, file_id, name))
           => PathOf(metadata, file_id) \notin DOMAIN disk'

\* C30 as stated: after move_file_to_folder(file, F) succeeds with F an
\* existing folder the node's fileName is <F.name>/<basename>, the physical
\* file is at that path and no longer at its previous place; after a
\* successful move out of any folder the fileName is the bare basename, at
\* the workspace root
C30_MoveFollowsFolder ==
    [][\A file_id \in FileIds(metadata), folder_id \in {Null} \cup FolderIds(metadata) :
          (MoveFileToFolder(file_id, folder_id) /\ last'.ok) =>
              MovedTo(file_id, FolderName(metadata, folder_id))]_vars

(***************************************************************************)
(* Properties of overlapping metadata mutations (SpecRace)                 *)
(***************************************************************************)
\* the ids of the nodes the agent's cycle adds
AgentIds ==
    {in_flight.agent.nodes[i].id :
         i \in {j \in 1..Len(in_flight.agent.nodes) :
                    GetOr(in_flight.agent.nodes[j], "id", "") # ""}}

\* both cycles have saved, and they were about different nodes
BothSaved ==
    /\ in_flight.backend.pos = "done"
    /\ in_flight.agent.pos = "done"
    /\ in_flight.backend.node \notin AgentIds

\* the document holds what the backend's cycle wrote to its node
BackendReflected ==
    /\ Has(metadata, in_flight.backend.node)
    /\ IF in_flight.backend.op = "update_node_metadata"
       THEN GetOr(At(metadata, in_flight.backend.node), "description", "")
                = in_flight.backend.text
       ELSE GetOr(At(metadata, in_flight.backend.node), "name", "")
                = in_flight.backend.text

\* the document holds the record of node with every field the agent wrote
HoldsNode(md, node) ==
    /\ Has(md, node.id)
    /\ \A key \in DOMAIN AgentNodeData(node) :
           GetOr(At(md, node.id), key, Null) = AgentNodeData(node)[key]

\* the document holds every node the agent's cycle added
AgentReflected ==
    \A i \in 1..Len(in_flight.agent.nodes) :
        GetOr(in_flight.agent.nodes[i], "id", "") # "" =>
            HoldsNode(metadata, in_flight.agent.nodes[i])

\* C28 as stated: when two load-modify-save cycles on different nodes
\* overlap, the final document reflects both mutations, whatever the order
\* of their load and save steps
C28_OverlapKeepsBoth ==
    BothSaved => (BackendReflected /\ AgentReflected)

(***************************************************************************)
(* Properties of folder deletion, created files and contents               *)
(***************************************************************************)
\* C31 as stated: after delete_folder(F) returns successfully no directory
\* exists at workspace-root/<F.name>, however many File nodes F contained
C31_DeletedFolderHasNoDir ==
    [][\A folder_id \in FolderIds(metadata) :
          (DeleteFolder(folder_id) /\ last'.ok) =>
              DirOf(metadata, folder_id) \notin dirs']_vars

\* the backing files of the File nodes of the document
BackingFiles(md) == {PathOf(md, id) : id \in FileIds(md)}

\* C32 as stated: a successful create_file(path) adds exactly one physical
\* file under the workspace root, the one at path; after it every file on
\* disk is the backing file of some File node, and the record of the new
\* node carries fileName = path
C32_CreateFileAddsOneFile ==
    [][\A filePath \in FilePaths, content \in Contents :
          (CreateFile(filePath, content) /\ last'.ok) =>
              /\ DOMAIN disk' \ DOMAIN disk = {PathJoin("", Clean(filePath))}
              /\ DOMAIN disk' \subseteq BackingFiles(metadata')
              /\ GetOr(At(metadata', last'.id), "fileName", "") = filePath]_vars

\* an update_file_content step that succeeded left the content in the
\* physical file and in the index
ContentWritten(file_id, content) ==
    /\ disk'[PathOf(metadata, file_id)] = content
    /\ files_db'[file_id].content = content

\* a save or a refresh left every file that existed, and the content the
\* index holds for every node, as they were
ContentsKept ==
    /\ \A p \in DOMAIN disk : p \in DOMAIN disk' /\ disk'[p] = disk[p]
    /\ \A id \in DOMAIN files_db :
           id \in DOMAIN files_db' /\ files_db'[id].content = files_db[id].content

\* C33 as stated: the content written by update_file_content(id, c) is what
\* the physical file holds and what the index returns for the node, for
\* every content c, empty and blank included, and no later save or refresh
\* changes it: reconciliation never changes the content of an existing file
C33_ContentSurvivesRefresh ==
    [][/\ \A file_id \in FileIds(metadata), content \in WrittenContents :
              (UpdateFileContent(file_id, content) /\ last'.ok) =>
                  ContentWritten(file_id, content)
       /\ (RoundTrip \/ GetAllFiles) => ContentsKept]_vars

\* the index holds the File nodes of the document, each at the place and
\* with the fileName the document gives it
IndexAgrees(md, db) ==
    /\ DOMAIN db = FileIds(md)
    /\ \A id \in FileIds(md) :
           /\ db[id].filePath = GetOr(At(md, id), "fileName", id \o ".txt")
           /\ db[id].x = GetOr(At(md, id), "x", db[id].x)
           /\ db[id].y = GetOr(At(md, id), "y", db[id].y)

\* C34 as stated: when making a placeholder fails with an I/O error during
\* save_metadata, the document is not written and keeps its content, and the
\* index still agrees with that document
C34_FailedSaveLeavesIndex ==
    [][\A doc \in PutDocuments(metadata) :
          (UpdateMetadata(doc) /\ RefreshRaises(W, doc) /\ IndexAgrees(metadata, files_db)) =>
              /\ metadata' = metadata
              /\ IndexAgrees(metadata', files_db')]_vars

(***************************************************************************)
(* Properties of edge deletion, node runs and the output document          *)
(***************************************************************************)
\* the places of the stored edges that (from, to, type) names
Matching(es, from, to, type) ==
    {i \in 1..Len(es) : es[i].from = from /\ es[i].to = to /\ es[i].type = type}

\* after is before without the places gone, in the order of before
WithoutPlaces(before, gone, after) ==
    /\ Len(after) = Len(before) - Cardinality(gone)
    /\ \A i \in 1..Len(before) \ gone :
           after[i - Cardinality({j \in gone : j < i})] = before[i]

\* C35: delete_edge(from, to, type) removes exactly the stored edges whose
\* from, to and type all match and keeps the others in their order; when no
\* stored edge matches it reports not-found and leaves the document unchanged
C35_DeleteEdgeExact ==
    [][\A from \in EdgeEnds, to \in EdgeEnds, type \in EdgeKinds :
          DeleteEdge(from, to, type) =>
              IF Matching(edges, from, to, type) = {}
              THEN last'.status = "not_found" /\ edges' = edges
              ELSE /\ last'.ok
                   /\ WithoutPlaces(edges, Matching(edges, from, to, type), edges')]_vars

\* a delete of (1, 2, calls) left the stored edge that differs from it in
\* type only and the edge after it
C35_Witness ==
    /\ last.op = "delete_edge" /\ last.ok
    /\ edges = <<Edge("1", "2", "depends_on"), Edge("2", "1", "calls")>>

(***************************************************************************)
(* Runs of a File node (main.py): run_file_stream answers with a generator *)
(* that runs the file; the generator is under way from the answer until    *)
(* the process has ended or failed.                                        *)
(***************************************************************************)
\* file_db.update_file_status(file_id, status): class FileDatabase defines
\* no such method, the attribute lookup raises AttributeError
update_file_status(db, file_id, status) == [db |-> db, raised |-> "AttributeError"]

\* GET /files/{file_id}/status
get_file_status(db, file_id) ==
    IF file_id \notin DOMAIN db THEN [status |-> "not_found", running |-> FALSE]
    ELSE [status |-> "ok", running |-> db[file_id].status = "running"]

\* GET /files/{file_id}/run up to the answer (lines 325-338); the bare
\* except drops whatever update_file_status raises
run_file_stream(db, file_id) ==
    IF file_id \notin DOMAIN db THEN [status |-> "not_found", db |-> db]
    ELSE IF db[file_id].filePath = "" THEN [status |-> "bad_request", db |-> db]
    ELSE [status |-> "ok", db |-> update_file_status(db, file_id, "running").db]

\* POST /files/{file_id}/stop: only ValueError is answered with 404, any
\* other exception leaves the handler
stop_file_execution(db, file_id) ==
    Let(update_file_status(db, file_id, "idle"), LAMBDA res :
        [status |-> IF res.raised = "" THEN "ok"
                    ELSE IF res.raised = "ValueError" THEN "not_found"
                    ELSE "raised",
         db |-> res.db])

RunFileStream(file_id) ==
    /\ Request
    /\ \E res \in {run_file_stream(files_db, file_id)} :
           /\ files_db' = res.db
           /\ runs' = IF res.status = "ok" THEN runs \cup {file_id} ELSE runs
           /\ last' = Report("run_file_stream", file_id, "", res.status)
    /\ UNCHANGED <<planVars, metadata_file, loaded, in_flight, output, written, writers,
                   launcher, metadata, disk, dirs, edges>>

\* the generator of a run ends: the process has completed (lines 371-379) or
\* an exception was raised (lines 381-386)
EndRun(file_id, outcome) ==
    /\ Request
    /\ file_id \in runs
    /\ files_db' = update_file_status(files_db, file_id, "idle").db
    /\ runs' = runs \ {file_id}
    /\ last' = Report("run_file_stream", file_id, outcome, "ok")
    /\ UNCHANGED <<planVars, metadata_file, loaded, in_flight, output, written, writers,
                   launcher, metadata, disk, dirs, edges>>

StopFileExecution(file_id) ==
    /\ Request
    /\ \E res \in {stop_file_execution(files_db, file_id)} :
           /\ files_db' = res.db
           /\ last' = Report("stop_file_execution", file_id, "", res.status)
    /\ UNCHANGED <<planVars, fileVars, metadata, disk, dirs, edges>>

GetFileStatus(file_id) ==
    /\ Request
    /\ \E res \in {get_file_status(files_db, file_id)} :
           last' = Report("get_file_status", file_id,
                          IF res.running THEN "running" ELSE "idle", res.status)
    /\ UNCHANGED <<planVars, fileVars, storeVars>>

MaxRunSteps == 5
RunOutcomes == {"completed", "failed"}

NextRun ==
    \/ \E filePath \in FolderPaths :
           steps < MaxRunSteps /\ CreateFile(filePath, "x")
    \/ \E file_id \in DocKeys \ runs :
           steps < MaxRunSteps /\ RunFileStream(file_id)
    \/ \E file_id \in DocKeys, outcome \in RunOutcomes :
           steps < MaxRunSteps /\ EndRun(file_id, outcome)
    \/ \E file_id \in DocKeys :
           steps < MaxRunSteps /\ StopFileExecution(file_id)
    \/ \E file_id \in DocKeys :
           steps < MaxRunSteps /\ GetFileStatus(file_id)

SpecRun == Init /\ [][NextRun]_vars

\* the status of a node is running exactly while its run is under way
RunningWhileRun ==
    \A file_id \in DOMAIN files_db : files_db[file_id].status = "running" <=> file_id \in runs

\* C36: a node's status is running for the duration of its run and idle
\* once the run has completed, failed or been stopped; stop_file_execution on
\* an existing node succeeds; get_file_status reports running exactly while
\* a run is in progress
C36_StatusFollowsRun ==
    /\ []RunningWhileRun
    /\ [][\A file_id \in DOMAIN files_db :
              /\ StopFileExecution(file_id) => last'.ok
              /\ (GetFileStatus(file_id) /\ last'.ok) =>
                     (last'.arg = "running" <=> file_id \in runs)]_vars

(***************************************************************************)
(* The output document (database.py, class OutputLogger); messages is the  *)
(* list under "messages" of OUTPUT_FILE, empty when there is no file.      *)
(***************************************************************************)
MAX_OUTPUT_MESSAGES == 100

\* output_entry (lines 281-286) without its timestamp, the clock's reading
OutputEntry(message, level) == [level |-> level, message |-> message]

\* write_output, were the list not cut to its last entries (lines 301-303)
write_output_NoCap(messages, message, level) ==
    Append(messages, OutputEntry(message, level))

\* write_output on the list read from OUTPUT_FILE: the list written back
write_output(messages, message, level) ==
    Let(Append(messages, OutputEntry(message, level)), LAMBDA appended :
        IF Len(appended) > MAX_OUTPUT_MESSAGES
        THEN SubSeq(appended, Len(appended) - MAX_OUTPUT_MESSAGES + 1, Len(appended))
        ELSE appended)

clear_output(messages) == <<>>

\* one write_output call, from the read of OUTPUT_FILE to the write
WriteOutput(message, level) ==
    /\ steps' = steps + 1
    /\ output' = write_output(output, message, level)
    /\ written' = Append(written, OutputEntry(message, level))
    /\ last' = Report("write_output", "", level, "ok")
    /\ UNCHANGED <<planVars, storeVars, metadata_file, loaded, in_flight, runs, writers,
                   launcher>>

\* POST /output/clear
ClearOutput ==
    /\ steps' = steps + 1
    /\ output' = clear_output(output)
    /\ written' = <<>>
    /\ last' = Report("clear_output", "", "", "ok")
    /\ UNCHANGED <<planVars, storeVars, metadata_file, loaded, in_flight, runs, writers,
                   launcher>>

(***************************************************************************)
(* Output specification: write_output and clear_output calls one after the *)
(* other, more of them than the document keeps; the n-th call carries the  *)
(* message n, so that no two messages are equal.                           *)
(***************************************************************************)
MaxOutputSteps == 103
Levels == {"INFO"}

NextOutput ==
    \/ \E message \in {steps + 1}, level \in Levels :
           steps < MaxOutputSteps /\ WriteOutput(message, level)
    \/ steps < MaxOutputSteps /\ ClearOutput

SpecOutput == Init /\ [][NextOutput]_vars

\* the number of messages the document holds when n were written
Held(n) == IF n > MAX_OUTPUT_MESSAGES THEN MAX_OUTPUT_MESSAGES ELSE n

\* C37: after any sequence of write_output and clear_output calls the
\* document holds at most MAX_OUTPUT_MESSAGES messages, and they are the most
\* recently written ones in the order they were written
C37_OutputKeepsLatest ==
    /\ Len(output) <= MAX_OUTPUT_MESSAGES
    /\ Len(output) = Held(Len(written))
    /\ \A i \in 1..Len(output) : output[i] = written[Len(written) - Len(output) + i]

\* more messages were written than the document keeps
C37_Witness ==
    /\ last.op = "write_output"
    /\ Len(written) = MAX_OUTPUT_MESSAGES + 2
    /\ Len(output) = MAX_OUTPUT_MESSAGES
    /\ output[1].message = 3

(***************************************************************************)
(* Overlapping writes: the thread that streams run_app.sh (stream_output,  *)
(* main.py:1366-1381) and the thread that serves the requests both call    *)
(* write_output, which takes no lock between its read of OUTPUT_FILE and   *)
(* its write.                                                              *)
(***************************************************************************)
Writers == {"thread", "handler"}

\* write_output up to the read of OUTPUT_FILE (lines 281-295)
BeginWrite(who, message, level) ==
    /\ writers[who].pos = "idle"
    /\ steps' = steps + 1
    /\ writers' = [writers EXCEPT ![who] = [pos |-> "read",
                                            entry |-> OutputEntry(message, level),
                                            messages |-> output]]
    /\ written' = Append(written, OutputEntry(message, level))
    /\ UNCHANGED <<planVars, storeVars, metadata_file, loaded, in_flight, runs, output,
                   launcher, last>>

\* write_output from the append to the write (lines 298-306)
FinishWrite(who) ==
    /\ writers[who].pos = "read"
    /\ output' = write_output(writers[who].messages, writers[who].entry.message,
                              writers[who].entry.level)
    /\ writers' = [writers EXCEPT ![who] = NotWriting]
    /\ last' = Report("write_output", who, writers[who].entry.level, "ok")
    /\ UNCHANGED <<planVars, storeVars, metadata_file, loaded, in_flight, runs, written,
                   launcher, steps>>

MaxWriteSteps == 4

NextWriters ==
    \/ \E who \in Writers, message \in {steps + 1}, level \in Levels :
           steps < MaxWriteSteps /\ BeginWrite(who, message, level)
    \/ \E who \in Writers : FinishWrite(who)

SpecWriters == Init /\ [][NextWriters]_vars

\* no write_output call is under way
WritersDone == \A who \in Writers : writers[who].pos = "idle"

\* C38: when the streaming thread and a request handler call write_output
\* concurrently, every message handed to write_output is in the document
\* afterwards, unless the cap has evicted it
C38_NoMessageDropped ==
    (WritersDone /\ Len(written) <= MAX_OUTPUT_MESSAGES) =>
        \A i \in 1..Len(written) : \E j \in 1..Len(output) : output[j] = written[i]

(***************************************************************************)
(* The launcher (main.py): launcher.process is RUN_APP_PROCESS (0 for      *)
(* None, else the process started), alive the run_app.sh processes that    *)
(* have not ended, streaming the processes whose stream_output thread      *)
(* still reads their output, exited those whose thread has written the     *)
(* exit message and not yet taken RUN_APP_LOCK.  What runs under           *)
(* RUN_APP_LOCK is one step.                                               *)
(***************************************************************************)
LaunchMessage == "Launching local app via scripts/run_app.sh ..."
ExitMessage == "run_app.sh exited with code"

\* POST /run-app, lines 1334-1362; start is what the request meets: "ok",
\* "no_script" (neither run_app.sh exists) or "popen_fails" (Popen raises)
launch_full_application(l, start) ==
    IF start = "no_script" THEN [status |-> "not_found", launcher |-> l]
    ELSE IF l.process # 0 /\ l.process \in l.alive
    THEN [status |-> "already_running", launcher |-> l]
    ELSE IF start = "popen_fails"
    THEN [status |-> "error", launcher |-> [l EXCEPT !.process = 0]]
    ELSE [status |-> "ok",
          launcher |-> [l EXCEPT !.process = l.started + 1,
                                 !.started = l.started + 1,
                                 !.alive = l.alive \cup {l.started + 1},
                                 !.streaming = l.streaming \cup {l.started + 1}]]

LaunchFullApplication(start) ==
    /\ steps' = steps + 1
    /\ \E res \in {launch_full_application(launcher, start)} :
           /\ launcher' = res.launcher
           /\ output' = IF res.status = "ok"
                        THEN write_output(output, LaunchMessage, "INFO") ELSE output
           /\ written' = IF res.status = "ok"
                         THEN Append(written, OutputEntry(LaunchMessage, "INFO"))
                         ELSE written
           /\ last' = Report("launch_full_application", "", start, res.status)
    /\ UNCHANGED <<planVars, storeVars, metadata_file, loaded, in_flight, runs, writers>>

\* a run_app.sh process ends
LauncherExits(process) ==
    /\ process \in launcher.alive
    /\ launcher' = [launcher EXCEPT !.alive = launcher.alive \ {process}]
    /\ UNCHANGED <<planVars, storeVars, metadata_file, loaded, in_flight, runs, output,
                   written, writers, last, steps>>

\* stream_output, lines 1369-1373: a line of the process is written
StreamOutputLine(process, line) ==
    /\ process \in launcher.streaming \cap launcher.alive
    /\ steps' = steps + 1
    /\ output' = write_output(output, line, "INFO")
    /\ written' = Append(written, OutputEntry(line, "INFO"))
    /\ UNCHANGED <<planVars, storeVars, metadata_file, loaded, in_flight, runs, writers,
                   launcher, last>>

\* stream_output, lines 1374-1378: the output has ended, process.wait() has
\* returned and the exit message is written
StreamOutputEnds(process) ==
    /\ process \in launcher.streaming \ launcher.alive
    /\ launcher' = [launcher EXCEPT !.streaming = launcher.streaming \ {process},
                                    !.exited = launcher.exited \cup {process}]
    /\ output' = write_output(output, ExitMessage, "INFO")
    /\ written' = Append(written, OutputEntry(ExitMessage, "INFO"))
    /\ UNCHANGED <<planVars, storeVars, metadata_file, loaded, in_flight, runs, writers,
                   last, steps>>

\* stream_output, lines 1379-1381: under RUN_APP_LOCK the globals are reset
StreamOutputCleanup(process) ==
    /\ process \in launcher.exited
    /\ launcher' = [launcher EXCEPT !.process = 0,
                                    !.exited = launcher.exited \ {process}]
    /\ UNCHANGED <<planVars, storeVars, metadata_file, loaded, in_flight, runs, output,
                   written, writers, last, steps>>

MaxLaunchSteps == 4
LaunchStarts == {"ok", "no_script", "popen_fails"}

NextLaunch ==
    \/ \E start \in LaunchStarts :
           steps < MaxLaunchSteps /\ LaunchFullApplication(start)
    \/ \E process \in 1..MaxLaunchSteps, line \in {"ready"} :
           steps < MaxLaunchSteps /\ StreamOutputLine(process, line)
    \/ \E process \in 1..MaxLaunchSteps : LauncherExits(process)
    \/ \E process \in 1..MaxLaunchSteps : StreamOutputEnds(process)
    \/ \E process \in 1..MaxLaunchSteps : StreamOutputCleanup(process)

SpecLaunch == Init /\ [][NextLaunch]_vars

\* at most one run_app.sh started by launch_full_application is alive
OneLauncher == Cardinality(launcher.alive) <= 1

\* C39: at most one launcher process is alive at any time, under every
\* interleaving of launch requests with the streaming thread's cleanup; a
\* launch request made while a launcher is alive starts no new process and
\* reports that the launcher is already running
C39_SingleLauncher ==
    /\ []OneLauncher
    /\ [][\A start \in {"ok", "popen_fails"} :
              (LaunchFullApplication(start) /\ launcher.alive # {}) =>
                  /\ launcher'.alive = launcher.alive
                  /\ last'.status = "already_running"]_vars

====
